---- MODULE Spec2Model ----
(***************************************************************************)
(* Model of the cross-store synchronization engine of cloudflow-plus       *)
(* (backend/app/services/sync_service.py): sync_single_file,               *)
(* sync_single_bucket and sync_all_buckets running against two             *)
(* S3-compatible object stores, the source store (MinIO) and the           *)
(* destination store (AWS S3), and of the endpoints POST /sync/ and        *)
(* POST /sync/file (backend/app/routers/synchronization.py) that call it.  *)
(*                                                                         *)
(* Spec       sync_single_file calls in a row, or one sync_single_bucket   *)
(* SpecCrash  sync_single_file calls in a row, any of them interrupted     *)
(* SpecApi    one request to POST /sync/ or POST /sync/file                *)
(* SpecFleet  one sync_all_buckets call                                    *)
(* SpecStatus reads of the sync status (is_synced_via_metadata, files.py)  *)
(* SpecEnv    engine calls of one caller with uploads and deletes of       *)
(*            files.py and minio_files.py between their store calls;       *)
(*            the stores do not fail                                       *)
(* SpecPair   two callers whose store calls interleave; the stores do not  *)
(*            fail                                                         *)
(*                                                                         *)
(* Every store call of the engine is one step of the model.  A store call  *)
(* answers from the state of the store, or fails with one of the two       *)
(* exception classes of botocore the engine names: ClientError (with an    *)
(* error code other than not-found) and EndpointConnectionError.           *)
(***************************************************************************)
EXTENDS Integers, Sequences, FiniteSets, TLC

\* ------------------------------------------------------------ bounds ----
\* number of engine calls made one after the other in one behaviour
MaxCalls == 2
\* number of store calls that fail during one sync_single_bucket call, and
\* during the sync_single_bucket calls of one sync_all_buckets call
MaxBucketFaults == 2
\* number of keys the store returns in one page of list_objects_v2
PageSize == 2
\* number of buckets list_buckets returns to sync_all_buckets
MaxBuckets == 2
\* number of operations (engine calls, uploads, deletes) in a run with
\* uploads and deletes
MaxOps == 3

\* ------------------------------------------------------- the universe ----
Procs == {1}
\* an object key is <<user, name>>, standing for the string "<user>/<name>"
Keys == {<<1, 1>>, <<1, 2>>, <<2, 1>>}
Contents == {"c1", "c2"}
None == <<>>
Some(x) == <<x>>
Q == "q"
Unbound == "unbound"
Now == "now"
LocalBucket == "cloud-flow-bucket"
AwsBucket == "cloud-flow-bucket"
Faults == {"ClientError", "EndpointConnectionError"}

UserName(u) == IF u = 1 THEN "u1" ELSE "u2"
\* synchronization.py builds the key as f"{current_user.id}/{object_key}"
UserIdOf(key) == UserName(key[1])

\* ------------------------------------------------------- exceptions ----
ClientErr(code, op) == [type |-> "ClientError", code |-> code, msg |-> op, cause |-> None]
ConnErr(op) == [type |-> "EndpointConnectionError", code |-> "", msg |-> op, cause |-> None]
SyncErr(msg, cause) == [type |-> "S3SyncError", code |-> "", msg |-> msg, cause |-> cause]
NameErr(name) == [type |-> "NameError", code |-> "", msg |-> name, cause |-> None]

Return(v) == [exc |-> None, val |-> v]
Raise(e) == [exc |-> Some(e), val |-> None]

RECURSIVE _extract_error_details(_)
_extract_error_details(e) ==
    IF e.type = "ClientError" THEN <<e.code, e.msg>>
    ELSE IF e.type = "S3SyncError"
         THEN IF e.cause # None
              THEN <<e.msg, "(Cause: ">> \o _extract_error_details(e.cause[1]) \o <<")">>
              ELSE <<e.msg>>
         ELSE <<e.type, e.msg>>

\* ------------------------------------------------- metadata and ETags ----
EmptyMeta == [k \in {} |-> ""]
\* Python's {**a, **b}
Merge(a, b) == [k \in DOMAIN a \cup DOMAIN b |-> IF k \in DOMAIN b THEN b[k] ELSE a[k]]
SyncFields(synced, user_id) ==
    [k \in {"synced", "last_synced", "aws_bucket", "user_id"} |->
        CASE k = "synced" -> synced
          [] k = "last_synced" -> Now
          [] k = "aws_bucket" -> AwsBucket
          [] OTHER -> user_id]
\* dict.get(key, default)
Get(m, k, default) == IF k \in DOMAIN m THEN m[k] ELSE default

\* the store reports the fingerprint of a body wrapped in quote characters
QuotedETag(body) == <<Q, body, Q>>
\* str.strip('"')
StripQuotes(s) ==
    LET keep == {i \in 1..Len(s) : s[i] # Q}
    IN  IF keep = {} THEN <<>>
        ELSE SubSeq(s, CHOOSE i \in keep : \A j \in keep : i <= j,
                       CHOOSE i \in keep : \A j \in keep : i >= j)

\* ---------------------------------------------------- the store client ----
\* f is "ok" (the store answers from its state) or the class of the failure
HeadBucketCall(exists, f) ==
    IF f = "ClientError" THEN Raise(ClientErr("403", "HeadBucket"))
    ELSE IF f = "EndpointConnectionError" THEN Raise(ConnErr("HeadBucket"))
    ELSE IF ~exists THEN Raise(ClientErr("404", "Not Found"))
    ELSE Return(None)

CreateBucketCall(f) ==
    IF f = "ClientError" THEN Raise(ClientErr("AccessDenied", "Access Denied"))
    ELSE IF f = "EndpointConnectionError" THEN Raise(ConnErr("CreateBucket"))
    ELSE Return(None)

HeadObjectCall(objs, exists, key, f) ==
    IF f = "ClientError" THEN Raise(ClientErr("403", "HeadObject"))
    ELSE IF f = "EndpointConnectionError" THEN Raise(ConnErr("HeadObject"))
    ELSE IF ~exists \/ objs[key] = None THEN Raise(ClientErr("404", "Not Found"))
    ELSE Return([ETag |-> QuotedETag(objs[key][1].body), Metadata |-> objs[key][1].meta])

GetObjectCall(objs, exists, key, f) ==
    IF f = "ClientError" THEN Raise(ClientErr("InternalError", "GetObject"))
    ELSE IF f = "EndpointConnectionError" THEN Raise(ConnErr("GetObject"))
    ELSE IF ~exists THEN Raise(ClientErr("NoSuchBucket", "GetObject"))
    ELSE IF objs[key] = None THEN Raise(ClientErr("NoSuchKey", "GetObject"))
    ELSE Return([Body |-> objs[key][1].body, Metadata |-> objs[key][1].meta])

\* MetadataDirective="COPY": the copy keeps the metadata of the copied object
CopyObjectCallKeepsMetadata(objs, exists, key, from, meta, f) ==
    IF f = "ClientError" THEN Raise(ClientErr("InternalError", "CopyObject"))
    ELSE IF f = "EndpointConnectionError" THEN Raise(ConnErr("CopyObject"))
    ELSE IF ~exists THEN Raise(ClientErr("NoSuchBucket", "CopyObject"))
    ELSE IF objs[from] = None THEN Raise(ClientErr("NoSuchKey", "CopyObject"))
    ELSE Return([objs EXCEPT ![key] = objs[from]])

\* copy_object(Bucket, Key, CopySource, Metadata, MetadataDirective="REPLACE")
\* val is the store after the call
CopyObjectCall(objs, exists, key, from, meta, f) ==
    IF f = "ClientError" THEN Raise(ClientErr("InternalError", "CopyObject"))
    ELSE IF f = "EndpointConnectionError" THEN Raise(ConnErr("CopyObject"))
    ELSE IF ~exists THEN Raise(ClientErr("NoSuchBucket", "CopyObject"))
    ELSE IF objs[from] = None THEN Raise(ClientErr("NoSuchKey", "CopyObject"))
    ELSE Return([objs EXCEPT ![key] = Some([body |-> objs[from][1].body, meta |-> meta])])

\* the upload reports success and stores nothing
UploadCallDropped(objs, exists, key, body, meta, f) ==
    IF f = "ClientError" THEN Raise(ClientErr("InternalError", "PutObject"))
    ELSE IF f = "EndpointConnectionError" THEN Raise(ConnErr("PutObject"))
    ELSE Return(objs)

\* upload_fileobj(body, Bucket, Key, ExtraArgs={"Metadata": meta})
UploadCall(objs, exists, key, body, meta, f) ==
    IF f = "ClientError" THEN Raise(ClientErr("InternalError", "PutObject"))
    ELSE IF f = "EndpointConnectionError" THEN Raise(ConnErr("PutObject"))
    ELSE IF ~exists THEN Raise(ClientErr("NoSuchBucket", "PutObject"))
    ELSE Return([objs EXCEPT ![key] = Some([body |-> body, meta |-> meta])])

\* ------------------------------------------------------------ helpers ----
\* _get_object_metadata: None for a 404, S3SyncError for another ClientError
_get_object_metadata(objs, exists, key, f) ==
    LET r == HeadObjectCall(objs, exists, key, f)
    IN  IF r.exc = None
        THEN Return(Some([r.val EXCEPT !.ETag = StripQuotes(@)]))
        ELSE IF r.exc[1].type = "ClientError"
             THEN IF r.exc[1].code = "404"
                  THEN Return(None)
                  ELSE Raise(SyncErr("Could not access metadata", r.exc))
             ELSE r

\* the comparison never finds a match
FingerprintsMatchNever(dest_meta, source_etag) == FALSE

\* the comparison takes any destination object for a match
FingerprintsMatchAny(dest_meta, source_etag) == dest_meta # None

\* if dest_meta and dest_meta.get("ETag") == source_etag
FingerprintsMatch(dest_meta, source_etag) ==
    dest_meta # None /\ dest_meta[1].ETag = source_etag

\* the status does not look at the destination
StatusForAlwaysSynced(dest_meta) == "synced"

\* status = "updated" if dest_meta else "synced"
StatusFor(dest_meta) == IF dest_meta # None THEN "updated" ELSE "synced"

\* _ensure_bucket_exists after head_bucket answered r: val is TRUE when
\* create_bucket is to be called
EnsureAfterHead(r) ==
    IF r.exc = None THEN Return(FALSE)
    ELSE IF r.exc[1].type = "ClientError"
         THEN IF r.exc[1].code \in {"404", "NoSuchBucket"}
              THEN Return(TRUE)
              ELSE Raise(SyncErr("Could not access bucket", r.exc))
         ELSE r

\* _ensure_bucket_exists after create_bucket answered r
EnsureAfterCreate(r) ==
    IF r.exc = None THEN Return(None)
    ELSE IF r.exc[1].type = "ClientError"
         THEN Raise(SyncErr("Could not create bucket", r.exc))
         ELSE r

\* _check_source_bucket_exists
_check_source_bucket_exists(exists, f) ==
    LET r == HeadBucketCall(exists, f)
    IN  IF r.exc = None THEN Return(None)
        ELSE IF r.exc[1].type = "ClientError"
             THEN IF r.exc[1].code \in {"404", "NoSuchBucket"}
                  THEN Raise(SyncErr("Source bucket does not exist", None))
                  ELSE Raise(SyncErr("Could not access source bucket", r.exc))
             ELSE r

\* -------------------------------------------------------------- state ----
VARIABLES
    src,         \* source store (MinIO): key -> None or Some([body, meta])
    dst,         \* destination store (AWS S3): the same
    srcBucket,   \* the source bucket exists
    dstBucket,   \* the destination bucket exists
    proc,        \* the engine call each caller is in, with its local variables
    calls        \* number of engine calls (and uploads and deletes) started

vars == <<src, dst, srcBucket, dstBucket, proc, calls>>

\* files.py: the metadata upload_file_to_bucket attaches to a new object
UploadMeta ==
    [k \in {"bucket", "synced", "aws_bucket", "last_synced"} |->
        CASE k = "bucket" -> LocalBucket
          [] k = "synced" -> "false"
          [] OTHER -> ""]
\* the metadata an earlier sync_single_bucket left on an uploaded object
BucketSyncedMeta == Merge(UploadMeta, SyncFields("true", "unknown"))

Obj(body, meta) == Some([body |-> body, meta |-> meta])

\* a caller outside any call; the fields below `raised` are the locals of
\* sync_single_file and sync_single_bucket, the fields from `flt` on record
\* what the call did; `faults` tells whether the stores may fail its calls
IdleProc ==
    [kind |-> "none", pc |-> "idle", key |-> <<>>, user_id |-> Unbound, prefix |-> <<>>,
     result |-> None, raised |-> None,
     source_meta |-> None, source_etag |-> <<>>, dest_meta |-> None,
     status |-> Unbound, minio_metadata |-> None, copy_source |-> None,
     source_metadata |-> EmptyMeta, source_body |-> "", error_details |-> <<>>,
     summary |-> None, page |-> <<>>, idx |-> 0, token |-> None,
     flt |-> {}, wlog |-> <<>>, pre_src |-> None, pre_dst |-> None,
     pre_dstBucket |-> FALSE, interrupted |-> "", response |-> None, fleet |-> None,
     prev |-> None, faults |-> TRUE]

\* what a store call may answer: from the state, or one of the failures
\* (none in the runs where the stores are taken not to fail)
Choices(p) ==
    {"ok"} \cup
    (IF \/ ~proc[p].faults
        \/ /\ proc[p].kind = "bucket"
           /\ Cardinality(proc[p].flt)
                 + (IF proc[p].fleet = None THEN 0 ELSE proc[p].fleet[1].faults) >= MaxBucketFaults
     THEN {} ELSE Faults)

AddFault(q, site, f) ==
    IF f = "ok" THEN q
    ELSE [q EXCEPT !.flt = @ \cup {[key |-> q.key, site |-> site, kind |-> f]}]

BodyOf(objs, key) == IF objs[key] = None THEN "" ELSE objs[key][1].body

LogWrite(q, store, key, from, body, meta, r) ==
    [q EXCEPT !.wlog = Append(@, [store |-> store, key |-> key, from |-> from, body |-> body,
                                  meta |-> meta, ok |-> (r.exc = None)])]

\* the stores before the first call: an object uploaded through files.py,
\* an object an earlier bucket sync has marked, and an object uploaded without
\* metadata (minio_files.py) or not at all; the destination holds nothing,
\* the same content, or other content (aws_files.py uploads there directly)
SourceObjects(exists, third) ==
    [k \in Keys |->
        IF ~exists THEN None
        ELSE CASE k = <<1, 1>> -> Obj("c1", UploadMeta)
               [] k = <<1, 2>> -> Obj("c1", BucketSyncedMeta)
               [] OTHER -> third]

\* d tells for each key whether the destination holds nothing, the same
\* content or other content
DestinationChoice(s, sExists, dExists, d) ==
    /\ \A k \in Keys : s[k] = None => d[k] = "absent"
    /\ ~dExists => \A k \in Keys : d[k] = "absent"
    /\ (sExists /\ dExists) => d[<<1, 2>>] # "absent" /\ d[<<2, 1>>] # "same"

DestinationObjects(s, d) ==
    [k \in Keys |->
        CASE d[k] = "absent" -> None
          [] d[k] = "same" -> Obj(s[k][1].body,
                                  Merge(s[k][1].meta, SyncFields("true", "unknown")))
          [] OTHER -> Obj("c2", EmptyMeta)]

InitStores ==
    /\ srcBucket \in BOOLEAN
    /\ dstBucket \in BOOLEAN
    /\ srcBucket \/ dstBucket
    /\ \E third \in {None, Obj("c1", EmptyMeta)} :
          src = SourceObjects(srcBucket, third)
    /\ \E d \in [Keys -> {"absent", "same", "diff"}] :
          /\ DestinationChoice(src, srcBucket, dstBucket, d)
          /\ dst = DestinationObjects(src, d)

Init ==
    /\ InitStores
    /\ proc = [p \in Procs |-> IdleProc]
    /\ calls = 0

\* ---------------------------------------------------- sync_single_file ----
\* the caller p starts sync_single_file(LocalBucket, AwsBucket, key, user_id)
StartFile(p) ==
    /\ proc[p].pc \in {"idle", "done"}
    /\ proc[p].kind # "bucket"
    /\ calls < MaxCalls
    /\ \E key \in Keys :
          proc' = [proc EXCEPT ![p] =
                     [IdleProc EXCEPT !.kind = "file", !.pc = "sf_head_src", !.key = key,
                                      !.user_id = UserIdOf(key),
                                      !.faults = proc[p].faults,
                                      !.pre_src = Some(src), !.pre_dst = Some(dst),
                                      !.pre_dstBucket = dstBucket,
                                      !.prev = IF proc[p].kind = "none" THEN None
                                               ELSE Some([kind |-> proc[p].kind, key |-> proc[p].key,
                                                          clean |-> proc[p].flt = {},
                                                          interrupted |-> proc[p].interrupted,
                                                          status |-> IF proc[p].result = None THEN "raised"
                                                                     ELSE IF proc[p].kind = "bucket" THEN "summary"
                                                                     ELSE proc[p].result[1].status])]]
    /\ calls' = calls + 1
    /\ UNCHANGED <<src, dst, srcBucket, dstBucket>>

\* except (ClientError, EndpointConnectionError, S3SyncError) as e
SfRaise(q, e) ==
    [q EXCEPT !.pc = "sf_exc_head", !.error_details = _extract_error_details(e)]

SfReturn(q, status, error) ==
    [q EXCEPT !.pc = "done",
              !.result = Some([status |-> status, key |-> q.key, error |-> error])]

\* an exception leaves the call
Escape(q, e) == [q EXCEPT !.pc = "done", !.raised = Some(e)]

\* 1. source_meta = _get_object_metadata(minio_s3_client, local_bucket, key)
SfHeadSrc(p) ==
    /\ proc[p].pc = "sf_head_src"
    /\ \E f \in Choices(p) :
          LET q == AddFault(proc[p], "head_src", f)
              r == _get_object_metadata(src, srcBucket, q.key, f)
          IN  proc' = [proc EXCEPT ![p] =
                IF r.exc # None THEN SfRaise(q, r.exc[1])
                ELSE IF r.val = None THEN SfRaise(q, SyncErr("Source file not found", None))
                ELSE [q EXCEPT !.pc = "sf_head_bucket", !.source_meta = r.val,
                               !.source_etag = r.val[1].ETag]]
    /\ UNCHANGED <<src, dst, srcBucket, dstBucket, calls>>

\* 2. _ensure_bucket_exists(aws_s3_client, aws_bucket): head_bucket
SfHeadBucket(p) ==
    /\ proc[p].pc = "sf_head_bucket"
    /\ \E f \in Choices(p) :
          LET q == AddFault(proc[p], "head_bucket", f)
              r == EnsureAfterHead(HeadBucketCall(dstBucket, f))
          IN  proc' = [proc EXCEPT ![p] =
                IF r.exc # None THEN SfRaise(q, r.exc[1])
                ELSE [q EXCEPT !.pc = IF r.val THEN "sf_create_bucket" ELSE "sf_head_dst"]]
    /\ UNCHANGED <<src, dst, srcBucket, dstBucket, calls>>

\* 2. _ensure_bucket_exists: create_bucket after a 404
SfCreateBucket(p) ==
    /\ proc[p].pc = "sf_create_bucket"
    /\ \E f \in Choices(p) :
          LET q == AddFault(proc[p], "create_bucket", f)
              r == EnsureAfterCreate(CreateBucketCall(f))
          IN  /\ proc' = [proc EXCEPT ![p] =
                   IF r.exc # None THEN SfRaise(q, r.exc[1])
                   ELSE [q EXCEPT !.pc = "sf_head_dst"]]
              /\ dstBucket' = IF r.exc = None THEN TRUE ELSE dstBucket
    /\ UNCHANGED <<src, dst, srcBucket, calls>>

\* 3. dest_meta = _get_object_metadata(aws_s3_client, aws_bucket, key), and
\* 4. the comparison of the fingerprints
SfHeadDst(p) ==
    /\ proc[p].pc = "sf_head_dst"
    /\ \E f \in Choices(p) :
          LET q == AddFault(proc[p], "head_dst", f)
              r == _get_object_metadata(dst, dstBucket, q.key, f)
          IN  proc' = [proc EXCEPT ![p] =
                IF r.exc # None THEN SfRaise(q, r.exc[1])
                ELSE [q EXCEPT !.dest_meta = r.val,
                               !.pc = IF FingerprintsMatch(r.val, q.source_etag)
                                      THEN "sf_skip_copy" ELSE "sf_pending_copy"]]
    /\ UNCHANGED <<src, dst, srcBucket, dstBucket, calls>>

\* 4. skipped: the source metadata is set to synced=true, best effort
SfSkipCopy(p) ==
    /\ proc[p].pc = "sf_skip_copy"
    /\ \E f \in Choices(p) :
          LET q0 == AddFault(proc[p], "skip_copy", f)
              meta == Merge(q0.source_meta[1].Metadata, SyncFields("true", q0.user_id))
              r == CopyObjectCall(src, srcBucket, q0.key, q0.key, meta, f)
              q == LogWrite(q0, "src", q0.key, q0.key, BodyOf(src, q0.key), meta, r)
          IN  /\ proc' = [proc EXCEPT ![p] =
                   SfReturn([q EXCEPT !.source_metadata = q0.source_meta[1].Metadata,
                                      !.minio_metadata = Some(meta),
                                      !.copy_source = Some(q0.key)], "skipped", None)]
              /\ src' = IF r.exc = None THEN r.val ELSE src
    /\ UNCHANGED <<dst, srcBucket, dstBucket, calls>>

\* 5. the source metadata is set to synced=pending, best effort
SfPendingCopy(p) ==
    /\ proc[p].pc = "sf_pending_copy"
    /\ \E f \in Choices(p) :
          LET q0 == AddFault(proc[p], "pending_copy", f)
              meta == Merge(q0.source_meta[1].Metadata, SyncFields("pending", q0.user_id))
              r == CopyObjectCall(src, srcBucket, q0.key, q0.key, meta, f)
              q == LogWrite(q0, "src", q0.key, q0.key, BodyOf(src, q0.key), meta, r)
          IN  /\ proc' = [proc EXCEPT ![p] =
                   [q EXCEPT !.pc = "sf_get",
                             !.source_metadata = q0.source_meta[1].Metadata,
                             !.minio_metadata = Some(meta),
                             !.copy_source = Some(q0.key),
                             !.status = StatusFor(q0.dest_meta)]]
              /\ src' = IF r.exc = None THEN r.val ELSE src
    /\ UNCHANGED <<dst, srcBucket, dstBucket, calls>>

\* 7. source_resp = minio_s3_client.get_object(Bucket=local_bucket, Key=key)
SfGet(p) ==
    /\ proc[p].pc = "sf_get"
    /\ \E f \in Choices(p) :
          LET q == AddFault(proc[p], "get", f)
              r == GetObjectCall(src, srcBucket, q.key, f)
          IN  proc' = [proc EXCEPT ![p] =
                IF r.exc # None THEN SfRaise(q, r.exc[1])
                ELSE [q EXCEPT !.pc = "sf_upload",
                               !.source_body = r.val.Body,
                               !.source_metadata =
                                   IF DOMAIN r.val.Metadata # {} THEN r.val.Metadata
                                   ELSE q.source_meta[1].Metadata]]
    /\ UNCHANGED <<src, dst, srcBucket, dstBucket, calls>>

\* 8. aws_s3_client.upload_fileobj with the merged metadata
SfUpload(p) ==
    /\ proc[p].pc = "sf_upload"
    /\ \E f \in Choices(p) :
          LET q0 == AddFault(proc[p], "upload", f)
              meta == Merge(q0.source_metadata, SyncFields("true", q0.user_id))
              r == UploadCall(dst, dstBucket, q0.key, q0.source_body, meta, f)
              q == LogWrite(q0, "dst", q0.key, q0.key, q0.source_body, meta, r)
          IN  /\ proc' = [proc EXCEPT ![p] =
                   IF r.exc # None THEN SfRaise(q, r.exc[1])
                   ELSE [q EXCEPT !.pc = "sf_final_copy"]]
              /\ dst' = IF r.exc = None THEN r.val ELSE dst
    /\ UNCHANGED <<src, srcBucket, dstBucket, calls>>

\* 9. the source metadata is set to the final values, best effort
SfFinalCopy(p) ==
    /\ proc[p].pc = "sf_final_copy"
    /\ \E f \in Choices(p) :
          LET q0 == AddFault(proc[p], "final_copy", f)
              meta == Merge(q0.source_metadata, SyncFields("true", q0.user_id))
              r == CopyObjectCall(src, srcBucket, q0.key, q0.copy_source[1], meta, f)
              q == LogWrite(q0, "src", q0.key, q0.copy_source[1], BodyOf(src, q0.copy_source[1]), meta, r)
          IN  /\ proc' = [proc EXCEPT ![p] =
                   SfReturn([q EXCEPT !.minio_metadata = Some(meta)], q0.status, None)]
              /\ src' = IF r.exc = None THEN r.val ELSE src
    /\ UNCHANGED <<dst, srcBucket, dstBucket, calls>>

\* the handler: the source object is headed again; an S3SyncError of
\* _get_object_metadata is not among (ClientError, EndpointConnectionError)
SfExcHead(p) ==
    /\ proc[p].pc = "sf_exc_head"
    /\ \E f \in Choices(p) :
          LET q == AddFault(proc[p], "exc_head", f)
              r == _get_object_metadata(src, srcBucket, q.key, f)
          IN  proc' = [proc EXCEPT ![p] =
                IF r.exc # None
                THEN IF r.exc[1].type \in {"ClientError", "EndpointConnectionError"}
                     THEN SfReturn(q, "failed", Some(q.error_details))
                     ELSE Escape(q, r.exc[1])
                ELSE IF r.val = None THEN SfReturn([q EXCEPT !.source_meta = None],
                                                   "failed", Some(q.error_details))
                ELSE [q EXCEPT !.pc = "sf_exc_copy", !.source_meta = r.val]]
    /\ UNCHANGED <<src, dst, srcBucket, dstBucket, calls>>

\* the handler: the source metadata is set to synced=false, best effort
SfExcCopy(p) ==
    /\ proc[p].pc = "sf_exc_copy"
    /\ \E f \in Choices(p) :
          LET q0 == AddFault(proc[p], "exc_copy", f)
              meta == Merge(q0.source_meta[1].Metadata, SyncFields("false", q0.user_id))
              r == CopyObjectCall(src, srcBucket, q0.key, q0.key, meta, f)
              q == LogWrite(q0, "src", q0.key, q0.key, BodyOf(src, q0.key), meta, r)
          IN  /\ proc' = [proc EXCEPT ![p] =
                   SfReturn([q EXCEPT !.source_metadata = q0.source_meta[1].Metadata,
                                      !.minio_metadata = Some(meta),
                                      !.copy_source = Some(q0.key)],
                            "failed", Some(q0.error_details))]
              /\ src' = IF r.exc = None THEN r.val ELSE src
    /\ UNCHANGED <<dst, srcBucket, dstBucket, calls>>

sync_single_file(p) ==
    \/ SfHeadSrc(p)
    \/ SfHeadBucket(p)
    \/ SfCreateBucket(p)
    \/ SfHeadDst(p)
    \/ SfSkipCopy(p)
    \/ SfPendingCopy(p)
    \/ SfGet(p)
    \/ SfUpload(p)
    \/ SfFinalCopy(p)
    \/ SfExcHead(p)
    \/ SfExcCopy(p)

\* -------------------------------------------------- sync_single_bucket ----
KeyLess(a, b) == a[1] < b[1] \/ (a[1] = b[1] /\ a[2] < b[2])
\* str.startswith(prefix); <<>> is "no prefix"
StartsWith(key, prefix) ==
    Len(prefix) <= Len(key) /\ SubSeq(key, 1, Len(prefix)) = prefix

RECURSIVE SortKeys(_)
SortKeys(S) ==
    IF S = {} THEN <<>>
    ELSE LET m == CHOOSE a \in S : \A b \in S \ {a} : KeyLess(a, b)
         IN  <<m>> \o SortKeys(S \ {m})

\* the listing does not apply the prefix
ListObjectsPageNoPrefix(objs, prefix, token) ==
    LET all == SortKeys({k \in Keys : /\ objs[k] # None
                                      /\ (token = None \/ KeyLess(token[1], k))})
        n == IF Len(all) > PageSize THEN PageSize ELSE Len(all)
    IN  [Contents |-> [i \in 1..n |-> [Key |-> all[i],
                                       ETag |-> QuotedETag(objs[all[i]][1].body)]],
         NextToken |-> IF Len(all) > PageSize THEN Some(all[n]) ELSE None]

\* one page of list_objects_v2: the keys under the prefix after the
\* continuation token, in the order of the store, with their quoted ETags
ListObjectsPage(objs, prefix, token) ==
    LET all == SortKeys({k \in Keys : /\ objs[k] # None
                                      /\ StartsWith(k, prefix)
                                      /\ (token = None \/ KeyLess(token[1], k))})
        n == IF Len(all) > PageSize THEN PageSize ELSE Len(all)
    IN  [Contents |-> [i \in 1..n |-> [Key |-> all[i],
                                       ETag |-> QuotedETag(objs[all[i]][1].body)]],
         NextToken |-> IF Len(all) > PageSize THEN Some(all[n]) ELSE None]

ListCall(objs, exists, prefix, token, f) ==
    IF f = "ClientError" THEN Raise(ClientErr("InternalError", "ListObjectsV2"))
    ELSE IF f = "EndpointConnectionError" THEN Raise(ConnErr("ListObjectsV2"))
    ELSE IF ~exists THEN Raise(ClientErr("NoSuchBucket", "ListObjectsV2"))
    ELSE Return(ListObjectsPage(objs, prefix, token))

NewSummary ==
    [bucket |-> LocalBucket, files_synced |-> 0, files_updated |-> 0,
     files_skipped |-> 0, failed_files |-> <<>>, error |-> None]

\* the caller p starts sync_single_bucket(LocalBucket, prefix=prefix)
StartBucket(p) ==
    /\ proc[p].pc = "idle"
    /\ calls = 0
    /\ \E prefix \in {<<>>, <<1>>, <<2>>} :
          proc' = [proc EXCEPT ![p] =
                     [IdleProc EXCEPT !.kind = "bucket", !.pc = "sb_check_src",
                                      !.prefix = prefix, !.summary = Some(NewSummary),
                                      !.faults = proc[p].faults,
                                      !.pre_src = Some(src), !.pre_dst = Some(dst),
                                      !.pre_dstBucket = dstBucket]]
    /\ calls' = calls + 1
    /\ UNCHANGED <<src, dst, srcBucket, dstBucket>>

\* return summary
SbReturn(q) == [q EXCEPT !.pc = "done", !.result = q.summary]

\* except S3SyncError as e: summary["error"] = error_details; return summary
SbBucketError(q, e) ==
    IF e.type = "S3SyncError"
    THEN SbReturn([q EXCEPT !.summary = Some([q.summary[1] EXCEPT !.error = Some(_extract_error_details(e))])])
    ELSE Escape(q, e)

\* the per-key handler: except (ClientError, EndpointConnectionError, S3SyncError)
SbRaise(q, e) ==
    [q EXCEPT !.pc = "sb_exc_head", !.error_details = _extract_error_details(e)]

\* the loops go on: the next key of the page, the next page, or the return
SbAdvance(q) ==
    IF q.idx < Len(q.page)
    THEN [q EXCEPT !.pc = "sb_head_src", !.idx = q.idx + 1,
                   !.key = q.page[q.idx + 1].Key,
                   !.source_etag = StripQuotes(q.page[q.idx + 1].ETag)]
    ELSE IF q.token # None THEN [q EXCEPT !.pc = "sb_list"]
    ELSE SbReturn(q)

\* summary["failed_files"].append({"key": key, "error": error_details})
SbFailed(q) ==
    SbAdvance([q EXCEPT !.summary = Some([q.summary[1] EXCEPT !.failed_files =
                  Append(@, [key |-> q.key, error |-> q.error_details])])])

Count(q, field) == [q EXCEPT !.summary = Some([q.summary[1] EXCEPT ![field] = @ + 1])]

\* 1. _check_source_bucket_exists(minio_s3_client, bucket_name)
SbCheckSrc(p) ==
    /\ proc[p].pc = "sb_check_src"
    /\ \E f \in Choices(p) :
          LET q == AddFault(proc[p], "check_src", f)
              r == _check_source_bucket_exists(srcBucket, f)
          IN  proc' = [proc EXCEPT ![p] =
                IF r.exc # None THEN SbBucketError(q, r.exc[1])
                ELSE [q EXCEPT !.pc = "sb_head_bucket"]]
    /\ UNCHANGED <<src, dst, srcBucket, dstBucket, calls>>

\* 1. _ensure_bucket_exists(aws_s3_client, aws_bucket): head_bucket
SbHeadBucket(p) ==
    /\ proc[p].pc = "sb_head_bucket"
    /\ \E f \in Choices(p) :
          LET q == AddFault(proc[p], "head_bucket", f)
              r == EnsureAfterHead(HeadBucketCall(dstBucket, f))
          IN  proc' = [proc EXCEPT ![p] =
                IF r.exc # None THEN SbBucketError(q, r.exc[1])
                ELSE [q EXCEPT !.pc = IF r.val THEN "sb_create_bucket" ELSE "sb_list"]]
    /\ UNCHANGED <<src, dst, srcBucket, dstBucket, calls>>

\* 1. _ensure_bucket_exists: create_bucket after a 404
SbCreateBucket(p) ==
    /\ proc[p].pc = "sb_create_bucket"
    /\ \E f \in Choices(p) :
          LET q == AddFault(proc[p], "create_bucket", f)
              r == EnsureAfterCreate(CreateBucketCall(f))
          IN  /\ proc' = [proc EXCEPT ![p] =
                   IF r.exc # None THEN SbBucketError(q, r.exc[1])
                   ELSE [q EXCEPT !.pc = "sb_list"]]
              /\ dstBucket' = IF r.exc = None THEN TRUE ELSE dstBucket
    /\ UNCHANGED <<src, dst, srcBucket, calls>>

\* 2. the paginator fetches a page; except ClientError around the loops
SbList(p) ==
    /\ proc[p].pc = "sb_list"
    /\ \E f \in Choices(p) :
          LET q0 == AddFault([proc[p] EXCEPT !.key = <<>>], "list", f)
              r == ListCall(src, srcBucket, q0.prefix, q0.token, f)
              q == [q0 EXCEPT !.page = r.val.Contents, !.idx = 0, !.token = r.val.NextToken]
          IN  proc' = [proc EXCEPT ![p] =
                IF r.exc # None
                THEN IF r.exc[1].type = "ClientError"
                     THEN SbReturn([q0 EXCEPT !.summary = Some([q0.summary[1] EXCEPT !.error =
                              Some(<<"Failed to list objects in source bucket: ">>
                                   \o _extract_error_details(r.exc[1]))])])
                     ELSE Escape(q0, r.exc[1])
                ELSE SbAdvance(q)]
    /\ UNCHANGED <<src, dst, srcBucket, dstBucket, calls>>

\* source_meta = _get_object_metadata(minio_s3_client, bucket_name, key); the
\* locals of the pending write are assigned only if the object is there
SbHeadSrc(p) ==
    /\ proc[p].pc = "sb_head_src"
    /\ \E f \in Choices(p) :
          LET q == AddFault(proc[p], "head_src", f)
              r == _get_object_metadata(src, srcBucket, q.key, f)
              user_id == Get(r.val[1].Metadata, "user_id", "unknown")
          IN  proc' = [proc EXCEPT ![p] =
                IF r.exc # None THEN SbRaise(q, r.exc[1])
                ELSE IF r.val = None THEN [q EXCEPT !.pc = "sb_head_dst", !.source_meta = None]
                ELSE [q EXCEPT !.pc = "sb_pending_copy", !.source_meta = r.val,
                               !.source_metadata = r.val[1].Metadata,
                               !.user_id = user_id,
                               !.minio_metadata =
                                   Some(Merge(r.val[1].Metadata, SyncFields("pending", user_id))),
                               !.copy_source = Some(q.key)]]
    /\ UNCHANGED <<src, dst, srcBucket, dstBucket, calls>>

\* the source metadata is set to synced=pending, inside the per-key try
SbPendingCopy(p) ==
    /\ proc[p].pc = "sb_pending_copy"
    /\ \E f \in Choices(p) :
          LET q0 == AddFault(proc[p], "pending_copy", f)
              r == CopyObjectCall(src, srcBucket, q0.key, q0.copy_source[1],
                                  q0.minio_metadata[1], f)
              q == LogWrite(q0, "src", q0.key, q0.copy_source[1], BodyOf(src, q0.copy_source[1]), q0.minio_metadata[1], r)
          IN  /\ proc' = [proc EXCEPT ![p] =
                   IF r.exc # None THEN SbRaise(q, r.exc[1])
                   ELSE [q EXCEPT !.pc = "sb_head_dst"]]
              /\ src' = IF r.exc = None THEN r.val ELSE src
    /\ UNCHANGED <<dst, srcBucket, dstBucket, calls>>

\* dest_meta = _get_object_metadata(aws_s3_client, aws_bucket, key), the
\* comparison and the count
SbHeadDst(p) ==
    /\ proc[p].pc = "sb_head_dst"
    /\ \E f \in Choices(p) :
          LET q0 == AddFault(proc[p], "head_dst", f)
              r == _get_object_metadata(dst, dstBucket, q0.key, f)
              q == [q0 EXCEPT !.dest_meta = r.val]
          IN  proc' = [proc EXCEPT ![p] =
                IF r.exc # None THEN SbRaise(q0, r.exc[1])
                ELSE IF r.val = None
                THEN [Count(q, "files_synced") EXCEPT !.pc = "sb_get", !.status = "synced"]
                ELSE IF FingerprintsMatch(r.val, q.source_etag)
                THEN IF q.minio_metadata = None
                     THEN Escape(Count(q, "files_skipped"), NameErr("minio_metadata"))
                     ELSE [Count(q, "files_skipped") EXCEPT
                              !.pc = "sb_skip_copy",
                              !.minio_metadata = Some(Merge(q.minio_metadata[1],
                                                            [k \in {"synced"} |-> "true"]))]
                ELSE [Count(q, "files_updated") EXCEPT !.pc = "sb_get", !.status = "updated"]]
    /\ UNCHANGED <<src, dst, srcBucket, dstBucket, calls>>

\* skipped: the source metadata is set to synced=true, best effort; continue
SbSkipCopy(p) ==
    /\ proc[p].pc = "sb_skip_copy"
    /\ \E f \in Choices(p) :
          LET q0 == AddFault(proc[p], "skip_copy", f)
              r == CopyObjectCall(src, srcBucket, q0.key, q0.copy_source[1],
                                  q0.minio_metadata[1], f)
              q == LogWrite(q0, "src", q0.key, q0.copy_source[1], BodyOf(src, q0.copy_source[1]), q0.minio_metadata[1], r)
          IN  /\ proc' = [proc EXCEPT ![p] = SbAdvance(q)]
              /\ src' = IF r.exc = None THEN r.val ELSE src
    /\ UNCHANGED <<dst, srcBucket, dstBucket, calls>>

\* source_resp = minio_s3_client.get_object(Bucket=bucket_name, Key=key)
SbGet(p) ==
    /\ proc[p].pc = "sb_get"
    /\ \E f \in Choices(p) :
          LET q == AddFault(proc[p], "get", f)
              r == GetObjectCall(src, srcBucket, q.key, f)
          IN  proc' = [proc EXCEPT ![p] =
                IF r.exc # None THEN SbRaise(q, r.exc[1])
                ELSE [q EXCEPT !.pc = "sb_upload", !.source_body = r.val.Body,
                               !.source_metadata = r.val.Metadata]]
    /\ UNCHANGED <<src, dst, srcBucket, dstBucket, calls>>

\* aws_s3_client.upload_fileobj with the merged metadata
SbUpload(p) ==
    /\ proc[p].pc = "sb_upload"
    /\ \E f \in Choices(p) :
          LET q0 == AddFault(proc[p], "upload", f)
              meta == Merge(q0.source_metadata, SyncFields("true", q0.user_id))
              r == UploadCall(dst, dstBucket, q0.key, q0.source_body, meta, f)
              q == LogWrite(q0, "dst", q0.key, q0.key, q0.source_body, meta, r)
          IN  IF proc[p].user_id = Unbound
              THEN /\ proc' = [proc EXCEPT ![p] = Escape(proc[p], NameErr("user_id"))]
                   /\ dst' = dst
              ELSE /\ proc' = [proc EXCEPT ![p] =
                        IF r.exc # None THEN SbRaise(q, r.exc[1])
                        ELSE [q EXCEPT !.pc = "sb_final_copy"]]
                   /\ dst' = IF r.exc = None THEN r.val ELSE dst
    /\ UNCHANGED <<src, srcBucket, dstBucket, calls>>

\* the source metadata is set to the final values, best effort
SbFinalCopy(p) ==
    /\ proc[p].pc = "sb_final_copy"
    /\ \E f \in Choices(p) :
          LET q0 == AddFault(proc[p], "final_copy", f)
              meta == Merge(q0.source_metadata, SyncFields("true", q0.user_id))
              r == CopyObjectCall(src, srcBucket, q0.key, q0.copy_source[1], meta, f)
              q == LogWrite(q0, "src", q0.key, q0.copy_source[1], BodyOf(src, q0.copy_source[1]), meta, r)
          IN  /\ proc' = [proc EXCEPT ![p] = SbAdvance([q EXCEPT !.minio_metadata = Some(meta)])]
              /\ src' = IF r.exc = None THEN r.val ELSE src
    /\ UNCHANGED <<dst, srcBucket, dstBucket, calls>>

\* the per-key handler: the source object is headed again; an S3SyncError of
\* _get_object_metadata is caught neither here nor by the except ClientError
\* around the loops
SbExcHead(p) ==
    /\ proc[p].pc = "sb_exc_head"
    /\ \E f \in Choices(p) :
          LET q == AddFault(proc[p], "exc_head", f)
              r == _get_object_metadata(src, srcBucket, q.key, f)
              user_id == Get(r.val[1].Metadata, "user_id", "unknown")
          IN  proc' = [proc EXCEPT ![p] =
                IF r.exc # None
                THEN IF r.exc[1].type \in {"ClientError", "EndpointConnectionError"}
                     THEN SbFailed(q)
                     ELSE Escape(q, r.exc[1])
                ELSE IF r.val = None THEN SbFailed([q EXCEPT !.source_meta = None])
                ELSE [q EXCEPT !.pc = "sb_exc_copy", !.source_meta = r.val,
                               !.source_metadata = r.val[1].Metadata,
                               !.user_id = user_id,
                               !.minio_metadata =
                                   Some(Merge(r.val[1].Metadata, SyncFields("false", user_id))),
                               !.copy_source = Some(q.key)]]
    /\ UNCHANGED <<src, dst, srcBucket, dstBucket, calls>>

\* the per-key handler: the source metadata is set to synced=false, best effort
SbExcCopy(p) ==
    /\ proc[p].pc = "sb_exc_copy"
    /\ \E f \in Choices(p) :
          LET q0 == AddFault(proc[p], "exc_copy", f)
              r == CopyObjectCall(src, srcBucket, q0.key, q0.copy_source[1],
                                  q0.minio_metadata[1], f)
              q == LogWrite(q0, "src", q0.key, q0.copy_source[1], BodyOf(src, q0.copy_source[1]), q0.minio_metadata[1], r)
          IN  /\ proc' = [proc EXCEPT ![p] = SbFailed(q)]
              /\ src' = IF r.exc = None THEN r.val ELSE src
    /\ UNCHANGED <<dst, srcBucket, dstBucket, calls>>

sync_single_bucket(p) ==
    \/ SbCheckSrc(p)
    \/ SbHeadBucket(p)
    \/ SbCreateBucket(p)
    \/ SbList(p)
    \/ SbHeadSrc(p)
    \/ SbPendingCopy(p)
    \/ SbHeadDst(p)
    \/ SbSkipCopy(p)
    \/ SbGet(p)
    \/ SbUpload(p)
    \/ SbFinalCopy(p)
    \/ SbExcHead(p)
    \/ SbExcCopy(p)

\* ------------------------------------------------------ specification ----
\* a caller makes sync_single_file calls one after the other, or one
\* sync_single_bucket call
Next ==
    \E p \in Procs :
        \/ StartFile(p)
        \/ sync_single_file(p)
        \/ StartBucket(p)
        \/ sync_single_bucket(p)

Spec == Init /\ [][Next]_vars

\* the process running sync_single_file is stopped between two store calls:
\* the call neither returns nor raises, its handler does not run
Crash(p) ==
    /\ proc[p].kind = "file"
    /\ proc[p].pc \notin {"idle", "done"}
    /\ proc' = [proc EXCEPT ![p].pc = "done", ![p].interrupted = proc[p].pc]
    /\ UNCHANGED <<src, dst, srcBucket, dstBucket, calls>>

\* sync_single_file calls one after the other, any of which may be interrupted
NextCrash ==
    \E p \in Procs :
        \/ StartFile(p)
        \/ sync_single_file(p)
        \/ Crash(p)

SpecCrash == Init /\ [][NextCrash]_vars

\* ------------------------------------------ routers/synchronization.py ----
Users == {1, 2}
\* get_user_prefix: f"{user_id}/"
get_user_prefix(u) == <<u>>

\* the prefix is not stripped
strip_user_prefix_keeps(full_key, user_prefix) == full_key

\* strip_user_prefix: the key without the user prefix it starts with
strip_user_prefix(full_key, user_prefix) ==
    IF StartsWith(full_key, user_prefix)
    THEN SubSeq(full_key, Len(user_prefix) + 1, Len(full_key))
    ELSE full_key

\* str.lower() of one piece of an error text, as its words; the pieces are
\* the messages of S3SyncError in sync_service.py, the error codes and
\* messages of the store, and the class names of the other exceptions
LowerWords(t) ==
    CASE t = "Source bucket does not exist" -> <<"source", "bucket", "does", "not", "exist">>
      [] t = "Could not access source bucket" -> <<"could", "not", "access", "source", "bucket">>
      [] t = "Could not access bucket" -> <<"could", "not", "access", "bucket">>
      [] t = "Could not create bucket" -> <<"could", "not", "create", "bucket">>
      [] t = "Could not access metadata" -> <<"could", "not", "access", "metadata">>
      [] t = "Source file not found" -> <<"source", "file", "not", "found", "in", "bucket">>
      [] t = "Failed to list objects in source bucket: " ->
             <<"failed", "to", "list", "objects", "in", "source", "bucket">>
      [] t = "(Cause: " -> <<"(cause:">>
      [] t = "Not Found" -> <<"not", "found">>
      [] t = "Access Denied" -> <<"access", "denied">>
      [] t = "AccessDenied" -> <<"accessdenied">>
      [] t = "NoSuchBucket" -> <<"nosuchbucket">>
      [] t = "NoSuchKey" -> <<"nosuchkey">>
      [] t = "InternalError" -> <<"internalerror">>
      [] t = "EndpointConnectionError" -> <<"endpointconnectionerror">>
      [] t = "NameError" -> <<"nameerror">>
      [] t = "HeadBucket" -> <<"headbucket">>
      [] t = "CreateBucket" -> <<"createbucket">>
      [] t = "HeadObject" -> <<"headobject">>
      [] t = "GetObject" -> <<"getobject">>
      [] t = "CopyObject" -> <<"copyobject">>
      [] t = "PutObject" -> <<"putobject">>
      [] t = "ListObjectsV2" -> <<"listobjectsv2">>
      [] OTHER -> <<t>>

RECURSIVE Lower(_)
Lower(text) ==
    IF text = <<>> THEN <<>> ELSE LowerWords(Head(text)) \o Lower(Tail(text))

\* needle in text
Contains(text, needle) ==
    \E i \in 1..(Len(text) - Len(needle) + 1) :
        SubSeq(text, i, i + Len(needle) - 1) = needle

HTTPException(status_code) == [status_code |-> status_code, body |-> None]
Ok200(body) == [status_code |-> 200, body |-> Some(body)]

\* sync_bucket once sync_single_bucket has returned or raised
sync_bucket_response(q) ==
    IF q.raised # None
    THEN IF q.raised[1].type = "S3SyncError" THEN HTTPException(502) ELSE HTTPException(500)
    ELSE LET result == [q.result[1] EXCEPT !.failed_files =
                           [i \in 1..Len(@) |->
                               [key |-> strip_user_prefix(@[i].key, q.prefix),
                                error |-> @[i].error]]]
         IN  IF result.error # None
             THEN IF \/ Contains(Lower(result.error[1]), <<"not", "found">>)
                     \/ Contains(Lower(result.error[1]), <<"nosuchbucket">>)
                  THEN HTTPException(404)
                  ELSE HTTPException(502)
             ELSE Ok200(result)

\* sync_file once sync_single_file has returned or raised
sync_file_response(q) ==
    IF q.raised # None
    THEN IF q.raised[1].type = "S3SyncError" THEN HTTPException(502) ELSE HTTPException(500)
    ELSE LET result == [q.result[1] EXCEPT !.key =
                           strip_user_prefix(@, get_user_prefix(q.key[1]))]
             error_detail == IF result.error # None THEN result.error[1]
                             ELSE <<"Unknown error">>
         IN  IF result.status = "failed"
             THEN IF \/ Contains(Lower(error_detail), <<"not", "found">>)
                     \/ Contains(Lower(error_detail), <<"nosuchkey">>)
                  THEN HTTPException(404)
                  ELSE IF Contains(Lower(error_detail), <<"access", "denied">>)
                  THEN HTTPException(403)
                  ELSE HTTPException(502)
             ELSE Ok200(result)

\* POST /sync/: sync_single_bucket(BUCKET_NAME, prefix=user_prefix) is called
sync_bucket(p) ==
    /\ StartBucket(p)
    /\ \E u \in Users : proc'[p].prefix = get_user_prefix(u)

\* POST /sync/: the response is made from the summary
SyncBucketRespond(p) ==
    /\ proc[p].kind = "bucket" /\ proc[p].pc = "done"
    /\ proc' = [proc EXCEPT ![p].pc = "responded",
                            ![p].response = Some(sync_bucket_response(proc[p]))]
    /\ UNCHANGED <<src, dst, srcBucket, dstBucket, calls>>

\* POST /sync/file: the source object is headed; the endpoint answers at once
\* when the head fails and calls sync_single_file when it succeeds
sync_file(p) ==
    /\ proc[p].pc = "idle"
    /\ calls = 0
    /\ \E key \in Keys, f \in {"ok"} \cup Faults :
          LET r == HeadObjectCall(src, srcBucket, key, f)
              q == AddFault([IdleProc EXCEPT !.kind = "file", !.key = key,
                                             !.user_id = UserIdOf(key),
                                             !.pre_src = Some(src), !.pre_dst = Some(dst),
                                             !.pre_dstBucket = dstBucket],
                            "check_head", f)
          IN  IF r.exc = None
              THEN /\ StartFile(p)
                   /\ proc'[p].key = key
              ELSE /\ proc' = [proc EXCEPT ![p] =
                        [q EXCEPT !.pc = "responded",
                                  !.response = Some(
                                      IF r.exc[1].type = "ClientError"
                                      THEN IF r.exc[1].code \in {"NoSuchKey", "404"}
                                           THEN HTTPException(404)
                                           ELSE HTTPException(500)
                                      ELSE HTTPException(500))]]
                   /\ calls' = calls + 1
                   /\ UNCHANGED <<src, dst, srcBucket, dstBucket>>

\* POST /sync/file: the response is made from the result
SyncFileRespond(p) ==
    /\ proc[p].kind = "file" /\ proc[p].pc = "done"
    /\ proc' = [proc EXCEPT ![p].pc = "responded",
                            ![p].response = Some(sync_file_response(proc[p]))]
    /\ UNCHANGED <<src, dst, srcBucket, dstBucket, calls>>

\* one request to POST /sync/ or to POST /sync/file
NextApi ==
    \E p \in Procs :
        \/ sync_bucket(p)
        \/ sync_single_bucket(p)
        \/ SyncBucketRespond(p)
        \/ sync_file(p)
        \/ sync_single_file(p)
        \/ SyncFileRespond(p)

SpecApi == Init /\ [][NextApi]_vars

\* --------------------------------------------------- sync_all_buckets ----
\* sync_all_buckets syncs one bucket at a time and a sync_single_bucket call
\* touches only the source bucket and the destination bucket it is given:
\* under SpecFleet src, dst, srcBucket and dstBucket are the bucket pair of
\* the sync_single_bucket call in progress, and what a bucket pair holds is
\* settled when the loop reaches it
BucketName(i) == "bucket-" \o ToString(i)

NewOverall ==
    [total_buckets_scanned |-> 0, total_files_synced |-> 0, total_files_updated |-> 0,
     total_files_skipped |-> 0, failed_buckets |-> <<>>, bucket_summaries |-> <<>>]

\* the frame of sync_all_buckets: its locals, the buckets it has called
\* sync_single_bucket for and the number of store calls that failed in them
NewFleet ==
    [source_buckets |-> <<>>, i |-> 0, overall_summary |-> NewOverall,
     called |-> <<>>, faults |-> 0]

InitFleet ==
    /\ srcBucket = FALSE
    /\ dstBucket = FALSE
    /\ src = [k \in Keys |-> None]
    /\ dst = [k \in Keys |-> None]
    /\ proc = [p \in Procs |-> IdleProc]
    /\ calls = 0

\* the caller p starts sync_all_buckets()
StartFleet(p) ==
    /\ proc[p].pc = "idle"
    /\ proc' = [proc EXCEPT ![p] = [IdleProc EXCEPT !.kind = "fleet", !.pc = "fl_list_buckets",
                                                    !.fleet = Some(NewFleet)]]
    /\ UNCHANGED <<src, dst, srcBucket, dstBucket, calls>>

ListBucketsCall(n, f) ==
    IF f = "ClientError" THEN Raise(ClientErr("InternalError", "ListBuckets"))
    ELSE IF f = "EndpointConnectionError" THEN Raise(ConnErr("ListBuckets"))
    ELSE Return([Buckets |-> [i \in 1..n |-> [Name |-> BucketName(i)]]])

\* the failed listing is taken for a store without buckets
FlListFailedReturns(q, e) ==
    [q EXCEPT !.pc = "done", !.result = Some(q.fleet[1].overall_summary)]

\* except ClientError as e: raise S3SyncError(...) from e; another exception
\* leaves sync_all_buckets as it is
FlListFailed(q, e) ==
    [q EXCEPT !.pc = "done",
              !.raised = Some(IF e.type = "ClientError"
                              THEN SyncErr("Could not list source buckets. Aborting sync.", Some(e))
                              ELSE e)]

\* the loop over source_buckets goes on: the next bucket, or the return
FlAdvance(fl) ==
    IF fl.i < Len(fl.source_buckets)
    THEN [IdleProc EXCEPT !.kind = "fleet", !.pc = "fl_call", !.fleet = Some(fl)]
    ELSE [IdleProc EXCEPT !.kind = "fleet", !.pc = "done", !.fleet = Some(fl),
                          !.result = Some(fl.overall_summary)]

\* response = minio_s3_client.list_buckets()
FlListBuckets(p) ==
    /\ proc[p].pc = "fl_list_buckets"
    /\ \E f \in {"ok"} \cup Faults, n \in 0..MaxBuckets :
          LET q == AddFault(proc[p], "list_buckets", f)
              r == ListBucketsCall(n, f)
          IN  proc' = [proc EXCEPT ![p] =
                IF r.exc # None THEN FlListFailed(q, r.exc[1])
                ELSE FlAdvance([q.fleet[1] EXCEPT
                        !.source_buckets = [i \in 1..Len(r.val.Buckets) |-> r.val.Buckets[i].Name],
                        !.overall_summary = [@ EXCEPT !.total_buckets_scanned =
                                                          Len(r.val.Buckets)]])]
    /\ UNCHANGED <<src, dst, srcBucket, dstBucket, calls>>

\* bucket_summary = sync_single_bucket(bucket_name, aws_bucket) is called;
\* the destination bucket of the pair, if it is there, holds the object an
\* earlier sync has marked on the source, with the same or with other content
FlCallBucket(p) ==
    /\ proc[p].kind = "fleet"
    /\ proc[p].pc = "fl_call"
    /\ srcBucket' = TRUE
    /\ dstBucket' \in BOOLEAN
    /\ \E third \in {None, Obj("c1", EmptyMeta)} :
          src' = SourceObjects(TRUE, third)
    /\ \E d \in [Keys -> {"absent", "same", "diff"}] :
          /\ DestinationChoice(src', TRUE, dstBucket', d)
          /\ d[<<1, 1>>] = "absent" /\ d[<<2, 1>>] = "absent"
          /\ dst' = DestinationObjects(src', d)
    /\ LET fl == proc[p].fleet[1]
           bucket_name == fl.source_buckets[fl.i + 1]
       IN  proc' = [proc EXCEPT ![p] =
                      [IdleProc EXCEPT !.kind = "bucket", !.pc = "sb_check_src",
                                       !.summary = Some([NewSummary EXCEPT !.bucket = bucket_name]),
                                       !.pre_src = Some(src'), !.pre_dst = Some(dst'),
                                       !.pre_dstBucket = dstBucket',
                                       !.fleet = Some([fl EXCEPT !.i = @ + 1,
                                                                 !.called = Append(@, bucket_name)])]]
    /\ calls' = calls + 1

\* the lines after the call: the totals, failed_buckets and bucket_summaries
FoldSummary(overall_summary, bucket_name, bucket_summary) ==
    [overall_summary EXCEPT
        !.total_files_synced = @ + bucket_summary.files_synced,
        !.total_files_updated = @ + bucket_summary.files_updated,
        !.total_files_skipped = @ + bucket_summary.files_skipped,
        !.failed_buckets =
            IF bucket_summary.error # None
            THEN Append(@, [bucket |-> bucket_name, error |-> bucket_summary.error[1]])
            ELSE IF bucket_summary.failed_files # <<>>
            THEN Append(@, [bucket |-> bucket_name,
                            error |-> <<ToString(Len(bucket_summary.failed_files)),
                                        " file(s) failed to sync">>])
            ELSE @,
        !.bucket_summaries = Append(@, bucket_summary)]

\* sync_single_bucket has returned, or raised: nothing around the call
\* catches what it raises
FlFold(p) ==
    /\ proc[p].kind = "bucket"
    /\ proc[p].pc = "done"
    /\ proc[p].fleet # None
    /\ LET q == proc[p]
           fl == [q.fleet[1] EXCEPT !.faults = @ + Cardinality(q.flt)]
       IN  proc' = [proc EXCEPT ![p] =
                IF q.raised # None
                THEN [IdleProc EXCEPT !.kind = "fleet", !.pc = "done", !.fleet = Some(fl),
                                      !.raised = q.raised]
                ELSE FlAdvance([fl EXCEPT !.overall_summary =
                        FoldSummary(@, fl.source_buckets[fl.i], q.result[1])])]
    /\ UNCHANGED <<src, dst, srcBucket, dstBucket, calls>>

sync_all_buckets(p) ==
    \/ FlListBuckets(p)
    \/ FlCallBucket(p)
    \/ FlFold(p)

NextFleet ==
    \E p \in Procs :
        \/ StartFleet(p)
        \/ sync_all_buckets(p)
        \/ sync_single_bucket(p)

SpecFleet == InitFleet /\ [][NextFleet]_vars

\* ------------------------------------------------- routers/files.py ----
\* the flag is set for every stored value other than "false"
SyncedFlagUnlessFalse(response) == Get(response.Metadata, "synced", "false") # "false"

\* user_metadata.get("synced") == "true" on a head_object response
SyncedFlag(response) == Get(response.Metadata, "synced", "") = "true"

\* is_synced_via_metadata(bucket_name, object_key, head_response): the given
\* response is used if there is one, else the source object is headed
is_synced_via_metadata(objs, exists, key, head_response, f) ==
    IF head_response # None THEN Return(SyncedFlag(head_response[1]))
    ELSE LET r == HeadObjectCall(objs, exists, key, f)
         IN  IF r.exc = None THEN Return(SyncedFlag(r.val))
             ELSE IF /\ r.exc[1].type = "ClientError"
                     /\ r.exc[1].code \in {"NoSuchKey", "404", "NoSuchBucket"}
                  THEN Return(FALSE)
                  ELSE Raise(HTTPException(500))

\* the metadata a source object can carry: none (uploaded through
\* minio_files.py), that of upload_file_to_bucket, or what a sync wrote
StoredMetadata ==
    {EmptyMeta, UploadMeta} \cup
    {Merge(UploadMeta, SyncFields(v, "u1")) : v \in {"pending", "true", "false"}}

InitStatus ==
    /\ srcBucket \in BOOLEAN
    /\ src \in [Keys -> {None} \cup {Obj("c1", m) : m \in StoredMetadata}]
    /\ ~srcBucket => src = [k \in Keys |-> None]
    /\ dstBucket = FALSE
    /\ dst = [k \in Keys |-> None]
    /\ proc = [p \in Procs |-> IdleProc]
    /\ calls = 0

\* delete_file_from_bucket reads the status without a head response
\* (files.py:781)
ReadStatus(p) ==
    /\ \E key \in Keys, f \in {"ok"} \cup Faults :
          LET q == AddFault([IdleProc EXCEPT !.kind = "read", !.pc = "done", !.key = key],
                            "head_src", f)
          IN  proc' = [proc EXCEPT ![p] =
                [q EXCEPT !.response = Some(is_synced_via_metadata(src, srcBucket, key, None, f))]]
    /\ UNCHANGED <<src, dst, srcBucket, dstBucket, calls>>

\* get_file_info and handle_file_request head the object themselves and pass
\* the response on (files.py:589-590, 668-676)
ReadStatusOfHead(p) ==
    /\ \E key \in Keys :
          LET head == HeadObjectCall(src, srcBucket, key, "ok")
          IN  /\ head.exc = None
              /\ proc' = [proc EXCEPT ![p] =
                    [IdleProc EXCEPT !.kind = "read_head", !.pc = "done", !.key = key,
                                     !.response = Some(is_synced_via_metadata(
                                         src, srcBucket, key, Some(head.val), "ok"))]]
    /\ UNCHANGED <<src, dst, srcBucket, dstBucket, calls>>

NextStatus == \E p \in Procs : ReadStatus(p) \/ ReadStatusOfHead(p)

SpecStatus == InitStatus /\ [][NextStatus]_vars

\* ------------------------------------------- uploads and deletes ----
\* the upload keeps the metadata of the object it replaces
PutObjectKeepsMetadata(objs, key, body, meta) ==
    [objs EXCEPT ![key] = Obj(body, IF objs[key] = None THEN meta ELSE objs[key][1].meta)]

\* upload_fileobj: the object under the key is replaced, body and metadata
PutObject(objs, key, body, meta) == [objs EXCEPT ![key] = Obj(body, meta)]

\* delete_object: no error if the key is not there
DeleteObject(objs, key) == [objs EXCEPT ![key] = None]

\* files.py, POST /files/: upload with the initial sync metadata
upload_file_to_bucket ==
    /\ calls < MaxOps
    /\ srcBucket
    /\ \E key \in Keys, body \in Contents :
          src' = PutObject(src, key, body, UploadMeta)
    /\ calls' = calls + 1
    /\ UNCHANGED <<dst, srcBucket, dstBucket, proc>>

\* minio_files.py, POST /{bucket_name}/files: upload without metadata
upload_plain ==
    /\ calls < MaxOps
    /\ srcBucket
    /\ \E key \in Keys, body \in Contents :
          src' = PutObject(src, key, body, EmptyMeta)
    /\ calls' = calls + 1
    /\ UNCHANGED <<dst, srcBucket, dstBucket, proc>>

\* files.py, DELETE /files/{object_key}?sync=: the source object is deleted,
\* and the destination object when sync is set
delete_file_from_bucket ==
    /\ calls < MaxOps
    /\ srcBucket
    /\ \E key \in Keys, sync \in BOOLEAN :
          /\ src' = DeleteObject(src, key)
          /\ dst' = IF sync /\ dstBucket THEN DeleteObject(dst, key) ELSE dst
    /\ calls' = calls + 1
    /\ UNCHANGED <<srcBucket, dstBucket, proc>>

\* the stores do not fail the calls of the run
InitEnv ==
    /\ InitStores
    /\ proc = [p \in Procs |-> [IdleProc EXCEPT !.faults = FALSE]]
    /\ calls = 0

\* engine calls of one caller, with uploads and deletes between their steps
NextEnv ==
    \/ \E p \in Procs :
          \/ StartFile(p)
          \/ sync_single_file(p)
          \/ StartBucket(p)
          \/ sync_single_bucket(p)
    \/ upload_file_to_bucket
    \/ upload_plain
    \/ delete_file_from_bucket

SpecEnv == InitEnv /\ [][NextEnv]_vars

\* ------------------------------------------------ concurrent calls ----
\* two callers of the engine at the same time (the endpoints of
\* synchronization.py take no lock)
Pair == {1, 2}

InitPair ==
    /\ InitStores
    /\ proc = [p \in Pair |-> [IdleProc EXCEPT !.faults = FALSE]]
    /\ calls = 0

\* a caller that has made no call yet calls sync_single_file for an object
\* that is there
StartFileOnObject(p) ==
    /\ proc[p].pc = "idle"
    /\ StartFile(p)
    /\ src[proc'[p].key] # None

\* the store calls of sync_single_file outside its handler (lines 110-223)
sync_single_file_steps(p) ==
    \/ SfHeadSrc(p)
    \/ SfHeadBucket(p)
    \/ SfCreateBucket(p)
    \/ SfHeadDst(p)
    \/ SfSkipCopy(p)
    \/ SfPendingCopy(p)
    \/ SfGet(p)
    \/ SfUpload(p)
    \/ SfFinalCopy(p)

\* the store calls of sync_single_bucket outside its per-key handler
\* (lines 289-418)
sync_single_bucket_steps(p) ==
    \/ SbCheckSrc(p)
    \/ SbHeadBucket(p)
    \/ SbCreateBucket(p)
    \/ SbList(p)
    \/ SbHeadSrc(p)
    \/ SbPendingCopy(p)
    \/ SbHeadDst(p)
    \/ SbSkipCopy(p)
    \/ SbGet(p)
    \/ SbUpload(p)
    \/ SbFinalCopy(p)

\* the store calls of the two callers interleave; no store call fails
NextPair ==
    \E p \in Pair :
        \/ StartFileOnObject(p)
        \/ sync_single_file_steps(p)
        \/ StartBucket(p)
        \/ sync_single_bucket_steps(p)

SpecPair == InitPair /\ [][NextPair]_vars

\* ------------------------------------------------------------- claims ----
FileDone(p) == proc[p].kind = "file" /\ proc[p].pc = "done"
BucketDone(p) == proc[p].kind = "bucket" /\ proc[p].pc = "done"
\* no store call of the call failed
Clean(p) == proc[p].flt = {}
Returned(p, status) == proc[p].result # None /\ proc[p].result[1].status = status
\* the uploads the call made to the destination
Uploads(p) == {i \in 1..Len(proc[p].wlog) : proc[p].wlog[i].store = "dst"}
\* the fingerprint the store reports, as the engine compares it
Fingerprint(obj) == StripQuotes(QuotedETag(obj[1].body))
SuccessStatus == {"synced", "updated", "skipped"}

\* C1: a sync_single_file call without store failures that follows a
\* successful sync_single_file call without store failures on the same key
\* returns "skipped", makes no upload and leaves the destination object as
\* it was.
C1_Idempotence ==
    \A p \in Procs :
        (/\ FileDone(p) /\ Clean(p)
         /\ proc[p].prev # None
         /\ proc[p].prev[1].key = proc[p].key
         /\ proc[p].prev[1].clean
         /\ proc[p].prev[1].status \in SuccessStatus)
        => /\ proc[p].raised = None
           /\ Returned(p, "skipped")
           /\ Uploads(p) = {}
           /\ dst[proc[p].key] = proc[p].pre_dst[1][proc[p].key]

C1_Witness ==
    \E p \in Procs :
        /\ FileDone(p) /\ Clean(p)
        /\ proc[p].prev # None
        /\ proc[p].prev[1].key = proc[p].key
        /\ proc[p].prev[1].clean
        /\ proc[p].prev[1].status = "updated"
        /\ Returned(p, "skipped")

\* C6: when the destination holds an object of another fingerprint under the
\* key, a sync_single_file call without store failures returns "updated" and
\* leaves the destination object with the fingerprint of the source object.
C6_ContentChange ==
    \A p \in Procs :
        LET k == proc[p].key
        IN  (/\ FileDone(p) /\ Clean(p)
             /\ proc[p].pre_src[1][k] # None
             /\ proc[p].pre_dst[1][k] # None
             /\ Fingerprint(proc[p].pre_dst[1][k]) # Fingerprint(proc[p].pre_src[1][k]))
            => /\ Returned(p, "updated")
               /\ src[k] # None /\ dst[k] # None
               /\ Fingerprint(dst[k]) = Fingerprint(src[k])
               /\ Fingerprint(src[k]) = Fingerprint(proc[p].pre_src[1][k])

C6_Witness ==
    \E p \in Procs :
        LET k == proc[p].key
        IN  /\ FileDone(p) /\ Clean(p)
            /\ proc[p].pre_src[1][k] # None
            /\ proc[p].pre_dst[1][k] # None
            /\ Fingerprint(proc[p].pre_dst[1][k]) # Fingerprint(proc[p].pre_src[1][k])
            /\ Returned(p, "updated")
            /\ Uploads(p) # {}

\* C7: when the destination has no object under the key, a sync_single_file
\* call without store failures on an existing source object returns "synced"
\* and leaves a destination object with the fingerprint of the source object.
C7_FirstSync ==
    \A p \in Procs :
        LET k == proc[p].key
        IN  (/\ FileDone(p) /\ Clean(p)
             /\ proc[p].pre_src[1][k] # None
             /\ proc[p].pre_dst[1][k] = None)
            => /\ Returned(p, "synced")
               /\ src[k] # None /\ dst[k] # None
               /\ Fingerprint(dst[k]) = Fingerprint(src[k])

C7_Witness ==
    \E p \in Procs :
        LET k == proc[p].key
        IN  /\ FileDone(p) /\ Clean(p)
            /\ proc[p].pre_src[1][k] # None
            /\ proc[p].pre_dst[1][k] = None
            /\ Returned(p, "synced")
            /\ dst[k] # None

\* the keys the listing of the call returns
Listed(p) ==
    {k \in Keys : proc[p].pre_src[1][k] # None /\ StartsWith(k, proc[p].prefix)}
Successes(p) ==
    proc[p].result[1].files_synced + proc[p].result[1].files_updated
        + proc[p].result[1].files_skipped
FailedEntries(p, k) ==
    {i \in 1..Len(proc[p].result[1].failed_files) : proc[p].result[1].failed_files[i].key = k}
SyncKeys == {"synced", "last_synced", "aws_bucket"}
MetadataWrites == {"pending_copy", "skip_copy", "final_copy", "exc_copy"}
SourceHeads == {"head_src", "exc_head"}

\* C2: a sync_single_bucket run over N listed keys in which exactly one
\* store call fails, the get or the upload of one key, returns a summary with
\* files_synced + files_updated + files_skipped = N-1 and one failed_files
\* entry, for that key, and raises nothing.
C2_PartialFailure ==
    \A p \in Procs :
        (/\ BucketDone(p)
         /\ Cardinality(proc[p].flt) = 1
         /\ \A x \in proc[p].flt : x.site \in {"get", "upload"})
        => /\ proc[p].raised = None
           /\ proc[p].result # None
           /\ proc[p].result[1].error = None
           /\ Successes(p) = Cardinality(Listed(p)) - 1
           /\ Len(proc[p].result[1].failed_files) = 1
           /\ \A x \in proc[p].flt : proc[p].result[1].failed_files[1].key = x.key

\* C3: sync_single_file ends, whatever store calls fail, by returning a
\* result whose status is synced, updated, skipped or failed; it raises
\* nothing.
C3_NeverRaises ==
    \A p \in Procs :
        FileDone(p) =>
            /\ proc[p].raised = None
            /\ proc[p].result # None
            /\ proc[p].result[1].status \in SuccessStatus \cup {"failed"}

\* C4: every successful metadata-replacing write of a call on a source
\* object keeps each metadata key the object had before the call, other than
\* synced, last_synced and aws_bucket, with its value.
C4_MetadataPreserved ==
    \A p \in Procs :
        \A i \in 1..Len(proc[p].wlog) :
            LET w == proc[p].wlog[i]
                pre == proc[p].pre_src[1][w.key]
            IN  (w.store = "src" /\ w.ok /\ pre # None)
                => \A k \in DOMAIN pre[1].meta \ SyncKeys :
                      k \in DOMAIN w.meta /\ w.meta[k] = pre[1].meta[k]

\* the destination object of the key has been headed in this call and its
\* fingerprint equals the fingerprint the call holds for the source object
MatchedInCall(p) ==
    /\ proc[p].dest_meta # None
    /\ proc[p].dest_meta[1].ETag = proc[p].source_etag
TrueWrites(p, store) ==
    {i \in 1..Len(proc[p].wlog) :
        /\ proc[p].wlog[i].key = proc[p].key
        /\ proc[p].wlog[i].store = store
        /\ Get(proc[p].wlog[i].meta, "synced", "") = "true"}

\* C5 as stated: whenever a call writes synced=true for a key, onto the
\* source object or onto the destination copy, it has read the destination
\* fingerprint of the key and found it equal to the source fingerprint.
C5_TrueOnlyAfterMatch ==
    \A p \in Procs :
        (TrueWrites(p, "src") \cup TrueWrites(p, "dst")) # {} => MatchedInCall(p)

\* C5 as amended: a call writes synced=true onto the source object of a key
\* only after it has read the destination fingerprint and found it equal, or
\* after it has uploaded the body it read from the source to the destination
\* under the key; the destination copy gets synced=true only as the metadata
\* of that upload, made when the comparison found no match.
C5_TrueAfterMatchOrUpload ==
    \A p \in Procs :
        /\ \A i \in TrueWrites(p, "src") :
              \/ MatchedInCall(p)
              \/ \E j \in TrueWrites(p, "dst") :
                    /\ j < i
                    /\ proc[p].wlog[j].ok
                    /\ proc[p].wlog[j].body = proc[p].source_body
                    /\ proc[p].wlog[i].body = proc[p].source_body
        /\ \A j \in TrueWrites(p, "dst") :
              /\ ~MatchedInCall(p)
              /\ proc[p].wlog[j].body = proc[p].source_body

C5_Witness ==
    \E p \in Procs :
        /\ proc[p].pc = "done"
        /\ ~MatchedInCall(p)
        /\ TrueWrites(p, "dst") # {}
        /\ \E i \in TrueWrites(p, "src") : proc[p].wlog[i].ok

\* C8: in sync_single_bucket, when the only store calls that fail are heads
\* of source objects (with an error other than not-found), each key whose
\* first head failed has exactly one failed_files entry, every listed key is
\* accounted for and the summary is returned without raising.
C8_SourceHeadFailure ==
    \A p \in Procs :
        (/\ BucketDone(p)
         /\ \E x \in proc[p].flt : x.site = "head_src"
         /\ \A x \in proc[p].flt : x.site \in SourceHeads)
        => /\ proc[p].raised = None
           /\ proc[p].result # None
           /\ proc[p].result[1].error = None
           /\ \A x \in proc[p].flt :
                 x.site = "head_src" => Cardinality(FailedEntries(p, x.key)) = 1
           /\ Successes(p) + Len(proc[p].result[1].failed_files) = Cardinality(Listed(p))

\* C9: when the only store calls that fail are writes of the sync status
\* onto source objects, sync_single_file reports an existing key synced,
\* updated or skipped, and sync_single_bucket reports every listed key
\* synced, updated or skipped and none failed.
C9_BestEffortWrites ==
    \A p \in Procs :
        (/\ proc[p].pc = "done"
         /\ proc[p].flt # {}
         /\ \A x \in proc[p].flt : x.site \in MetadataWrites)
        => /\ proc[p].raised = None
           /\ proc[p].result # None
           /\ proc[p].kind = "file" =>
                 (proc[p].pre_src[1][proc[p].key] # None
                     => proc[p].result[1].status \in SuccessStatus)
           /\ proc[p].kind = "bucket" =>
                 /\ proc[p].result[1].failed_files = <<>>
                 /\ Successes(p) = Cardinality(Listed(p))

\* C10: when a step of sync_single_file fails, the call returns status
\* failed with the error of that step, whether or not the head and the
\* synced=false write that follow fail as well.
C10_ErrorNotMasked ==
    \A p \in Procs :
        (FileDone(p) /\ proc[p].error_details # <<>>)
        => proc[p].result = Some([status |-> "failed", key |-> proc[p].key,
                                  error |-> Some(proc[p].error_details)])

\* the steps of sync_single_file between the source head and the final write
TransferSteps == {"head_bucket", "create_bucket", "head_dst", "get", "upload"}
\* the writes of the call that set synced to v on the source object of its key
StatusWrites(p, v) ==
    {i \in 1..Len(proc[p].wlog) :
        /\ proc[p].wlog[i].store = "src"
        /\ proc[p].wlog[i].key = proc[p].key
        /\ Get(proc[p].wlog[i].meta, "synced", "") = v}

\* C11: when a step of sync_single_file fails (bucket readiness, destination
\* head, get or upload) on an existing source object and the synced=false
\* write of the handler succeeds, the call returns status failed and the
\* source object's synced value is false, neither pending nor true.
C11_FailureLeavesFalse ==
    \A p \in Procs :
        LET k == proc[p].key
        IN  (/\ FileDone(p)
             /\ proc[p].pre_src[1][k] # None
             /\ \E x \in proc[p].flt : x.site \in TransferSteps
             /\ \E i \in StatusWrites(p, "false") : proc[p].wlog[i].ok)
            => /\ Returned(p, "failed")
               /\ src[k] # None
               /\ Get(src[k][1].meta, "synced", "") = "false"

C11_Witness ==
    \E p \in Procs :
        LET k == proc[p].key
        IN  /\ FileDone(p)
            /\ \E x \in proc[p].flt : x.site = "upload"
            /\ \E i \in StatusWrites(p, "pending") : proc[p].wlog[i].ok
            /\ \E i \in StatusWrites(p, "false") : proc[p].wlog[i].ok
            /\ Returned(p, "failed")
            /\ Get(src[k][1].meta, "synced", "") = "false"

\* the summary of a sync_single_bucket call that counted and failed nothing
ZeroCounts(sm) ==
    /\ sm.files_synced = 0 /\ sm.files_updated = 0 /\ sm.files_skipped = 0
    /\ sm.failed_files = <<>>
\* the call has left the stores as it found them
StoresUntouched(p) ==
    /\ src = proc[p].pre_src[1] /\ dst = proc[p].pre_dst[1]
    /\ dstBucket = proc[p].pre_dstBucket
    /\ proc[p].wlog = <<>>

\* C14: when the source bucket check of sync_single_bucket fails (the bucket
\* is not there, the head is refused, or the store is unreachable), the call
\* returns a summary with error set, zero counts and no failed files; it
\* raises nothing, lists nothing, touches no object and does not create the
\* destination bucket.
C14_SourceBucketCheckFails ==
    \A p \in Procs :
        (/\ BucketDone(p)
         /\ ~srcBucket \/ \E x \in proc[p].flt : x.site = "check_src")
        => /\ proc[p].raised = None
           /\ proc[p].result # None
           /\ proc[p].result[1].error # None
           /\ ZeroCounts(proc[p].result[1])
           /\ proc[p].page = <<>>
           /\ StoresUntouched(p)

\* the listed keys of the pages the call did not fetch
Unfetched(p) ==
    {k \in Listed(p) : proc[p].token = None \/ KeyLess(proc[p].token[1], k)}

\* C15: when fetching a page of the listing fails with a client error or an
\* unreachable endpoint, sync_single_bucket returns a summary with error set
\* and raises nothing, and the keys of the pages not fetched are not
\* processed.
C15_ListingFailureReported ==
    \A p \in Procs :
        (/\ BucketDone(p)
         /\ \E x \in proc[p].flt : x.site = "list")
        => /\ proc[p].raised = None
           /\ proc[p].result # None
           /\ proc[p].result[1].error # None
           /\ \A k \in Unfetched(p) :
                 /\ FailedEntries(p, k) = {}
                 /\ \A i \in 1..Len(proc[p].wlog) : proc[p].wlog[i].key # k

\* the places of sync_single_bucket before the first object-level store call
BucketLevel == {"sb_check_src", "sb_head_bucket", "sb_create_bucket", "sb_list", "done"}

\* C17: sync_single_bucket on an existing source bucket whose listing is
\* empty never reaches an object-level store call, and when no store call
\* fails it returns a summary with zero counts, no failed files and no error.
C17_EmptyListing ==
    \A p \in Procs :
        (proc[p].kind = "bucket" /\ srcBucket /\ Listed(p) = {})
        => /\ proc[p].pc \in BucketLevel
           /\ proc[p].wlog = <<>>
           /\ (proc[p].pc = "done" /\ Clean(p))
                 => /\ proc[p].raised = None
                    /\ proc[p].result # None
                    /\ proc[p].result[1].error = None
                    /\ ZeroCounts(proc[p].result[1])

C17_Witness ==
    \E p \in Procs :
        /\ BucketDone(p) /\ Clean(p)
        /\ srcBucket /\ Listed(p) = {}
        /\ proc[p].prefix = <<2>>
        /\ proc[p].page = <<>>
        /\ proc[p].result # None
        /\ ZeroCounts(proc[p].result[1])

\* C20: sync_single_file gives a key one status, so a sync_single_bucket
\* that accounts for a key as sync_single_file would makes, for every listed
\* key, either one increment of files_synced, files_updated or files_skipped
\* or one failed_files entry: in a returned summary without a bucket-level
\* error the increments and the entries add up to the number of listed keys,
\* and no key with a failed_files entry was counted.
C20_BucketRefinesFile ==
    \A p \in Procs :
        (/\ BucketDone(p)
         /\ proc[p].result # None
         /\ proc[p].result[1].error = None)
        => /\ Successes(p) + Len(proc[p].result[1].failed_files) = Cardinality(Listed(p))
           /\ \A k \in Listed(p) : Cardinality(FailedEntries(p, k)) <= 1

\* the call was stopped after the upload and before the final metadata write
AfterCopy == "sf_final_copy"
\* a failure-free sync_single_file call that follows an interrupted call on
\* the same key, the source object being there
RetryDone(p) ==
    /\ FileDone(p) /\ Clean(p)
    /\ proc[p].interrupted = ""
    /\ proc[p].prev # None
    /\ proc[p].prev[1].key = proc[p].key
    /\ proc[p].prev[1].interrupted # ""
    /\ proc[p].pre_src[1][proc[p].key] # None

\* C16: a sync_single_file call interrupted after the upload and before the
\* final metadata write leaves the destination with the content of the
\* source; a failure-free call on the same key that follows it returns
\* "skipped", uploads nothing and leaves the source synced=true. A
\* failure-free call that follows an interruption at another point returns
\* synced, updated or skipped and leaves the destination fingerprint equal to
\* the source's and the source synced=true.
C16_CrashAndRetry ==
    \A p \in Procs :
        LET k == proc[p].key
        IN  /\ (proc[p].pc = "done" /\ proc[p].interrupted = AfterCopy)
                  => /\ src[k] # None /\ dst[k] # None
                     /\ Fingerprint(dst[k]) = Fingerprint(src[k])
            /\ RetryDone(p)
                  => /\ proc[p].raised = None
                     /\ proc[p].result # None
                     /\ proc[p].result[1].status \in SuccessStatus
                     /\ src[k] # None /\ dst[k] # None
                     /\ Fingerprint(dst[k]) = Fingerprint(src[k])
                     /\ Get(src[k][1].meta, "synced", "") = "true"
                     /\ proc[p].prev[1].interrupted = AfterCopy
                           => Returned(p, "skipped") /\ Uploads(p) = {}

\* the retry found the source object pending and the content already copied
C16_Witness ==
    \E p \in Procs :
        /\ RetryDone(p)
        /\ proc[p].prev[1].interrupted = AfterCopy
        /\ Get(proc[p].pre_src[1][proc[p].key][1].meta, "synced", "") = "pending"
        /\ Returned(p, "skipped")
        /\ Get(src[proc[p].key][1].meta, "synced", "") = "true"

Responded(p, kind) ==
    /\ proc[p].kind = kind /\ proc[p].pc = "responded" /\ proc[p].response # None
StatusCode(p) == proc[p].response[1].status_code

\* C18: POST /sync/ responds 404 when the source bucket does not exist and
\* 502 for the other bucket-level errors of the summary; POST /sync/file
\* responds 404 when the source object does not exist. The store answers
\* the calls in question (no injected failure).
C18_NotFoundIs404 ==
    \A p \in Procs :
        /\ (Responded(p, "bucket") /\ Clean(p) /\ ~srcBucket)
              => StatusCode(p) = 404
        /\ (/\ Responded(p, "bucket") /\ srcBucket
            /\ proc[p].result # None /\ proc[p].result[1].error # None)
              => StatusCode(p) = 502
        /\ (Responded(p, "file") /\ Clean(p) /\ src[proc[p].key] = None)
              => StatusCode(p) = 404

\* C19: when sync_single_bucket returns a summary without bucket-level error
\* and with failed files, POST /sync/ responds 200 with the summary, each
\* failed file with its key without the user prefix and with its error.
C19_PartialFailureIs200 ==
    \A p \in Procs :
        (/\ Responded(p, "bucket")
         /\ proc[p].result # None
         /\ proc[p].result[1].error = None
         /\ proc[p].result[1].failed_files # <<>>)
        => LET sm == proc[p].result[1]
               rs == proc[p].response[1]
           IN  /\ rs.status_code = 200
               /\ rs.body # None
               /\ [rs.body[1] EXCEPT !.failed_files = <<>>] = [sm EXCEPT !.failed_files = <<>>]
               /\ Len(rs.body[1].failed_files) = Len(sm.failed_files)
               /\ \A i \in 1..Len(sm.failed_files) :
                     /\ <<proc[p].prefix[1]>> \o rs.body[1].failed_files[i].key
                            = sm.failed_files[i].key
                     /\ rs.body[1].failed_files[i].error = sm.failed_files[i].error

C19_Witness ==
    \E p \in Procs :
        /\ Responded(p, "bucket")
        /\ proc[p].result # None
        /\ proc[p].result[1].error = None
        /\ Len(proc[p].result[1].failed_files) = 2
        /\ StatusCode(p) = 200
        /\ proc[p].response[1].body[1].failed_files[1].key = <<1>>

FleetDone(p) == proc[p].kind = "fleet" /\ proc[p].pc = "done"

\* C12: when list_buckets fails, sync_all_buckets raises and returns no
\* summary; sync_single_bucket has not been called and no store write has
\* been made.
C12_FleetFatal ==
    \A p \in Procs :
        (FleetDone(p) /\ \E x \in proc[p].flt : x.site = "list_buckets")
        => /\ proc[p].raised # None
           /\ proc[p].result = None
           /\ calls = 0
           /\ proc[p].fleet[1].called = <<>>
           /\ proc[p].wlog = <<>>
           /\ \A k \in Keys : src[k] = None /\ dst[k] = None
           /\ ~dstBucket

C12_Witness ==
    \E p \in Procs :
        /\ FleetDone(p)
        /\ \E x \in proc[p].flt : x.site = "list_buckets" /\ x.kind = "ClientError"
        /\ proc[p].raised # None
        /\ proc[p].raised[1].type = "S3SyncError"
        /\ proc[p].raised[1].cause # None
        /\ calls = 0

\* the entries of failed_buckets for a bucket
FailedBucketEntries(ov, b) ==
    {j \in 1..Len(ov.failed_buckets) : ov.failed_buckets[j].bucket = b}

\* C13: sync_all_buckets calls sync_single_bucket for every bucket
\* list_buckets returned, in order, whatever failed in the earlier buckets;
\* when it returns, bucket_summaries has one entry per bucket, in order, and
\* a bucket has one entry in failed_buckets if its summary has an error or a
\* failed file, and none otherwise.
C13_FleetIsolation ==
    \A p \in Procs :
        FleetDone(p)
        => LET fl == proc[p].fleet[1]
               n == Len(fl.source_buckets)
           IN  /\ fl.called = fl.source_buckets
               /\ proc[p].result # None =>
                     LET ov == proc[p].result[1]
                     IN  /\ Len(ov.bucket_summaries) = n
                         /\ \A i \in 1..n :
                               /\ ov.bucket_summaries[i].bucket = fl.source_buckets[i]
                               /\ Cardinality(FailedBucketEntries(ov, fl.source_buckets[i]))
                                    = IF \/ ov.bucket_summaries[i].error # None
                                         \/ ov.bucket_summaries[i].failed_files # <<>>
                                      THEN 1 ELSE 0
                         /\ \A j \in 1..Len(ov.failed_buckets) :
                               \E i \in 1..n : ov.failed_buckets[j].bucket = fl.source_buckets[i]

\* C21: the synced=pending write on the source object of a key is made only
\* after the destination object of the key has been headed in the call and
\* found absent or different: when the destination head of a key is about to
\* be made, and when the key has been found matching, the call has made no
\* pending write for the key.
C21_PendingOnlyOnCopyPath ==
    \A p \in Procs :
        /\ proc[p].pc \in {"sf_head_dst", "sb_head_dst", "sf_skip_copy", "sb_skip_copy"}
              => StatusWrites(p, "pending") = {}
        /\ (FileDone(p) /\ Returned(p, "skipped")) => StatusWrites(p, "pending") = {}

\* the readiness checks and every page fetch of the call succeeded
ListingSucceeded(p) ==
    \A x \in proc[p].flt : x.site \notin {"check_src", "head_bucket", "create_bucket", "list"}
\* the listed keys after the key k in the order of the store
ListedAfter(p, k) == {j \in Listed(p) : k = <<>> \/ KeyLess(k, j)}
\* the last store call sync_single_bucket makes for a key, or the page fetch
LastStepOfKey == {"sb_list", "sb_skip_copy", "sb_final_copy", "sb_exc_head", "sb_exc_copy"}
\* the call moves to another key: from the last store call of the key before,
\* to the first store call of the next listed key in the order of the store
NextKeyStep(p) ==
    (/\ proc[p].kind = "bucket" /\ proc'[p].kind = "bucket"
     /\ proc'[p].key # proc[p].key /\ proc'[p].key # <<>>)
    => /\ proc[p].pc \in LastStepOfKey
       /\ proc'[p].pc = "sb_head_src"
       /\ proc'[p].key \in ListedAfter(p, proc[p].key)
       /\ \A j \in ListedAfter(p, proc[p].key) : j = proc'[p].key \/ KeyLess(proc'[p].key, j)
\* the call is over and no listed key lies after the last key it processed
AllKeysProcessed(p) ==
    (BucketDone(p) /\ ListingSucceeded(p)) => ListedAfter(p, proc[p].key) = {}

\* C22 (order): sync_single_bucket takes the listed keys one at a time in the
\* order of the store, each key once, and makes every store call of a key
\* before the first store call of the next key.
C22_InOrder == [][\A p \in Procs : NextKeyStep(p)]_vars

\* C22: when the listing succeeds, sync_single_bucket processes every key of
\* every listed page exactly once, in the order the store returned them, and
\* completes the store calls of one key before the first call of the next.
C22_ExhaustiveIteration ==
    /\ [](\A p \in Procs : AllKeysProcessed(p))
    /\ C22_InOrder

\* head_bucket on the destination store answered not-found in the call
HeadBucketNotFound(p) ==
    /\ ~proc[p].pre_dstBucket
    /\ \A x \in proc[p].flt : x.site # "head_bucket"
\* the call is past head_bucket of the destination store
PastHeadBucket(p) ==
    proc[p].pc \in {"sf_create_bucket", "sf_head_dst", "sf_skip_copy", "sf_pending_copy",
                    "sf_get", "sf_upload", "sf_final_copy"}
\* create_bucket has been attempted in the call, or is the next store call
CreateAttempted(p) ==
    \/ proc[p].pc = "sf_create_bucket"
    \/ \E x \in proc[p].flt : x.site = "create_bucket"
    \/ (dstBucket /\ ~proc[p].pre_dstBucket)
\* bucket readiness of the destination failed in the call
ReadinessFailed(p) ==
    \E x \in proc[p].flt : x.site \in {"head_bucket", "create_bucket"}
\* the destination head of the key was made in the call
DestinationHeaded(p) ==
    \/ proc[p].dest_meta # None
    \/ \E x \in proc[p].flt : x.site = "head_dst"
    \/ proc[p].status # Unbound
    \/ proc[p].pc \in {"sf_skip_copy", "sf_pending_copy"}

\* C23: in sync_single_file, create_bucket on the destination store is
\* attempted if and only if head_bucket answered not-found; when head_bucket
\* fails with another error or the creation fails, the call returns failed
\* for the key and the destination object is neither headed nor written.
C23_BucketReadiness ==
    \A p \in Procs :
        /\ (proc[p].kind = "file" /\ CreateAttempted(p)) => HeadBucketNotFound(p)
        /\ (proc[p].kind = "file" /\ PastHeadBucket(p) /\ HeadBucketNotFound(p))
              => CreateAttempted(p)
        /\ (FileDone(p) /\ ReadinessFailed(p))
              => /\ Returned(p, "failed")
                 /\ ~DestinationHeaded(p)
                 /\ Uploads(p) = {}
                 /\ dst = proc[p].pre_dst[1]

\* the destination head of the key failed with an error other than not-found
DestinationHeadFailed(p) == \E x \in proc[p].flt : x.site = "head_dst"

\* C24: sync_single_file makes a full copy (status synced) only when the
\* destination head of the key answered not-found; when that head fails with
\* another store error, the call returns failed and uploads nothing.
C24_AbsentIsNotError ==
    \A p \in Procs :
        /\ (FileDone(p) /\ Returned(p, "synced"))
              => /\ proc[p].pre_dst[1][proc[p].key] = None
                 /\ ~DestinationHeadFailed(p)
        /\ (proc[p].kind = "file" /\ DestinationHeadFailed(p)) => Uploads(p) = {}
        /\ (FileDone(p) /\ DestinationHeadFailed(p)) => Returned(p, "failed")

\* the keys that do not start with the prefix of the call
OutsidePrefix(p) == {k \in Keys : ~StartsWith(k, proc[p].prefix)}

\* C30: sync_single_bucket called with a prefix makes its object-level store
\* calls (head, get, copy, upload) only for keys that start with the prefix,
\* and leaves the objects under every other key as they were in both stores.
C30_PrefixFrame ==
    \A p \in Procs :
        proc[p].kind = "bucket"
        => /\ proc[p].key \notin OutsidePrefix(p)
           /\ \A x \in proc[p].flt : x.key \notin OutsidePrefix(p)
           /\ \A i \in 1..Len(proc[p].wlog) :
                 /\ proc[p].wlog[i].key \notin OutsidePrefix(p)
                 /\ proc[p].wlog[i].from \notin OutsidePrefix(p)
           /\ \A k \in OutsidePrefix(p) :
                 /\ src[k] = proc[p].pre_src[1][k]
                 /\ dst[k] = proc[p].pre_dst[1][k]

C30_Witness ==
    \E p \in Procs :
        /\ BucketDone(p)
        /\ proc[p].prefix = <<1>>
        /\ proc[p].result # None
        /\ proc[p].result[1].files_updated = 1
        /\ proc[p].result[1].files_skipped = 1
        /\ src[<<2, 1>>] # None
        /\ \E i \in Uploads(p) : proc[p].wlog[i].ok
        /\ src[<<1, 1>>] # proc[p].pre_src[1][<<1, 1>>]

\* a status read is over
ReadDone(p) == proc[p].kind \in {"read", "read_head"} /\ proc[p].response # None
\* the store answered the head of the read from its state
ReadAnswered(p) == proc[p].flt = {}
\* the synced value the metadata of the object holds, "false" when the
\* object, the bucket or the value is not there
StoredStatus(k) ==
    IF ~srcBucket \/ src[k] = None THEN "false" ELSE Get(src[k][1].meta, "synced", "false")
\* a returned flag as the responses render it (str(synced).lower())
StatusText(r) == IF r.val THEN "true" ELSE "false"

\* C25 as stated: reading the status of a source object returns the stored
\* synced value (pending, true or false), false when the metadata has none,
\* and false, without raising, when the store answers not-found for the
\* object or the bucket.
C25_ReadReturnsStored ==
    \A p \in Procs :
        (ReadDone(p) /\ ReadAnswered(p))
        => /\ proc[p].response[1].exc = None
           /\ StatusText(proc[p].response[1]) = StoredStatus(proc[p].key)

\* C25 as amended: the read returns a boolean, true exactly when the stored
\* synced value is "true"; a stored pending or false, metadata without the
\* value, and a not-found answer for the object or the bucket all give false,
\* and none of them raises.
C25_ReadReturnsTrueFlag ==
    \A p \in Procs :
        (ReadDone(p) /\ ReadAnswered(p))
        => /\ proc[p].response[1].exc = None
           /\ proc[p].response[1].val = (StoredStatus(proc[p].key) = "true")

C25_Witness ==
    \E p \in Procs :
        /\ ReadDone(p) /\ ReadAnswered(p)
        /\ StoredStatus(proc[p].key) = "pending"
        /\ proc[p].response[1] = Return(FALSE)
        /\ \E k \in Keys : src[k] = None
        /\ \E k \in Keys : src[k] # None /\ StoredStatus(k) = "true"

\* the synced value the metadata of the source object of k holds
NoValue == "none"
SyncedValue(objs, k) == Get(objs[k][1].meta, "synced", NoValue)
\* the object of k is there before and after the step and its synced value
\* differs
SyncedChanged(k) ==
    /\ src[k] # None /\ src'[k] # None
    /\ SyncedValue(src', k) # SyncedValue(src, k)
\* the step is a metadata write of an engine call on the source object of k
SyncWrote(k) ==
    \E p \in Procs :
        /\ proc[p].kind \in {"file", "bucket"}
        /\ Len(proc'[p].wlog) = Len(proc[p].wlog) + 1
        /\ LET w == proc'[p].wlog[Len(proc'[p].wlog)]
           IN  w.store = "src" /\ w.key = k /\ w.ok
\* an upload through POST /files/ leaves its object with synced=false
UploadSetsFalse ==
    upload_file_to_bucket
    => \A k \in Keys : src'[k] # src[k] => SyncedValue(src', k) = "false"

\* C26 as stated: an object uploaded through POST /files/ has synced=false
\* (a re-upload resets true or pending to false), and afterwards the synced
\* value of an object is changed only by sync_single_file or
\* sync_single_bucket.
C26_OnlySyncChangesStatus ==
    [][/\ UploadSetsFalse
       /\ \A k \in Keys :
             SyncedChanged(k) => (SyncWrote(k) \/ upload_file_to_bucket)]_vars

\* C26 as amended: an object uploaded through POST /files/ has synced=false;
\* afterwards the synced value of an object becomes pending or true only by
\* a write of sync_single_file or sync_single_bucket on that key, and
\* otherwise changes only by an upload over the key: to false through
\* POST /files/, to no value through the upload of minio_files.py, which
\* stores no metadata.
C26_StatusLifecycle ==
    [][/\ UploadSetsFalse
       /\ \A k \in Keys :
             SyncedChanged(k)
             => \/ SyncWrote(k)
                \/ upload_file_to_bucket
                \/ (upload_plain /\ SyncedValue(src', k) = NoValue)]_vars

C26_Witness ==
    \E p \in Procs :
        LET k == proc[p].key
        IN  /\ FileDone(p)
            /\ Returned(p, "synced")
            /\ \E i \in TrueWrites(p, "src") : proc[p].wlog[i].ok
            /\ src[k] # None
            /\ src[k][1].meta = UploadMeta
            /\ src[k][1].body = "c2"
            /\ \E j \in Keys : src[j] # None /\ src[j][1].meta = EmptyMeta /\ src[j][1].body = "c2"

\* the writes of the call whose copy source is another key than the key
\* written
ForeignWrites(p) ==
    {i \in 1..Len(proc[p].wlog) : proc[p].wlog[i].from # proc[p].wlog[i].key}

\* C28: every write sync_single_bucket makes for a key uses that key as its
\* copy source, and no exception escapes the call, also when the source
\* object of a listed key has been deleted before its head.
C28_NoCrossKeyWrites ==
    \A p \in Procs :
        proc[p].kind = "bucket"
        => /\ ForeignWrites(p) = {}
           /\ proc[p].raised = None

\* every source object marked synced=true has a destination object with the
\* same fingerprint
TrueMeansMatching(s, d) ==
    \A k \in Keys :
        (s[k] # None /\ Get(s[k][1].meta, "synced", "") = "true")
        => (d[k] # None /\ Fingerprint(d[k]) = Fingerprint(s[k]))
NoSyncInProgress == \A p \in Procs : proc[p].pc \in {"idle", "done"}

\* C29: when no sync call is in progress, every source object marked
\* synced=true has a destination object of the same fingerprint, provided
\* this was so when the last call began; uploads that overwrite source
\* objects (and store synced=false) may come between the store calls of
\* the sync.
C29_TrueMeansMatching ==
    \A p \in Procs :
        (/\ NoSyncInProgress
         /\ proc[p].pc = "done"
         /\ TrueMeansMatching(proc[p].pre_src[1], proc[p].pre_dst[1]))
        => TrueMeansMatching(src, dst)

\* the call of p is over and was a sync of the key k
SyncedKey(p, k) ==
    /\ proc[p].pc = "done"
    /\ \/ proc[p].kind = "file" /\ proc[p].key = k
       \/ proc[p].kind = "bucket" /\ k \in Listed(p) /\ proc[p].result[1].error = None
\* the call of p reports no failure for the key k
NotFailed(p, k) ==
    /\ proc[p].result # None
    /\ proc[p].kind = "file" => proc[p].result[1].status \in SuccessStatus
    /\ proc[p].kind = "bucket" => FailedEntries(p, k) = {}

\* C27: when two sync calls on the same key have interleaved their store
\* calls and no store call failed, both report a non-failed outcome for the
\* key, the destination object has the fingerprint of the source object and
\* the source object is marked synced=true.
C27_ConcurrentSyncsConverge ==
    \A p \in Pair, q \in Pair, k \in Keys :
        (p # q /\ SyncedKey(p, k) /\ SyncedKey(q, k) /\ proc[p].pre_src[1][k] # None)
        => /\ NotFailed(p, k) /\ NotFailed(q, k)
           /\ src[k] # None /\ dst[k] # None
           /\ Fingerprint(dst[k]) = Fingerprint(src[k])
           /\ Get(src[k][1].meta, "synced", "") = "true"

\* the two calls overlapped: each began before the other had written
C27_Witness ==
    \E k \in Keys :
        /\ SyncedKey(1, k) /\ SyncedKey(2, k)
        /\ proc[1].kind = "bucket" /\ proc[2].kind = "file"
        /\ proc[1].pre_src = proc[2].pre_src
        /\ proc[1].pre_dst = proc[2].pre_dst
        /\ proc[1].pre_dst[1][k] = None
        /\ Returned(2, "synced")
        /\ \E i \in Uploads(1) : proc[1].wlog[i].key = k /\ proc[1].wlog[i].ok
        /\ \E i \in Uploads(2) : proc[2].wlog[i].ok
        /\ Get(src[k][1].meta, "synced", "") = "true"
====
